---- MODULE Spec2Model ----
(***************************************************************************)
(* Verification model of the lecture-summarisation backend:                *)
(*   - the three-tier fallback orchestrator (api/routes.py),               *)
(*   - the in-memory SessionStore with TTL eviction (core/session.py),     *)
(*   - the pure text pipeline: chunker, lexical retriever and              *)
(*     structured-summary validator (services/pipeline_utils.py).          *)
(* Each component has its own specification (SpecChain, SpecStore, ...);   *)
(* the variables of the components a specification does not exercise stay  *)
(* parked at their initial value.                                          *)
(***************************************************************************)
EXTENDS Integers, Sequences, FiniteSets, TLC

VARIABLES
    chain_pc,      \* position inside _run_with_fallback_chain
    invoked,       \* sequence of tiers invoked so far, in call order
    outcome,       \* tier -> what its callable did ("none" before the call)
    chain_result,  \* what the chain handed to its caller
    sessions,      \* SessionStore._sessions: id -> record, or Absent
    clock,         \* datetime.now(timezone.utc), in ticks
    lock,          \* SessionStore._lock: the thread holding it, or "free"
    thr,           \* thread -> the store operation it is executing
    ret,           \* what the store step just taken handed to its caller
    chk,           \* one call of split_into_chunks: arguments, position, result
    sel,           \* one call of select_top_chunks_for_query
    val,           \* one call of validate_structured_summary
    mcq,           \* one call of LocalAIService.generate_mcqs
    slv,           \* one call of LocalAIService.solver_chat or _safe_eval
    mps            \* one multi-pass summarisation of a network adapter

chainVars == <<chain_pc, invoked, outcome, chain_result>>

storeVars == <<sessions, clock, lock, thr, ret>>

vars == <<chainVars, storeVars, chk, sel, val, mcq, slv, mps>>

(***************************************************************************)
(* Fallback orchestrator, routes.py:73-92                                  *)
(***************************************************************************)

Tiers == <<"gemini", "ollama", "local">>

\* Values a tier callable may return.
Values == {"v1", "v2"}

\* HTTP status codes a callable may signal through HTTPException.
Statuses == {400, 401, 403, 404, 422, 429, 500, 502, 503, 504}

\* What one invocation of a callable can do: return a value, raise an
\* HTTPException with a status, or raise any other exception.
Outcomes ==
    [kind : {"return"}, val : Values]
        \cup [kind : {"http"}, status : Statuses]
        \cup {[kind |-> "error"]}

NoOutcome == [kind |-> "none"]

\* Variant that also treats 400 (malformed request) as recoverable.
_is_recoverable_http_error_with_400(exc) ==
    exc.status \in {400, 401, 403, 429, 500, 502, 503, 504}

_is_recoverable_http_error(exc) ==
    exc.status \in {401, 403, 429, 500, 502, 503, 504}

ChainStart ==
    /\ chain_pc = "gemini"
    /\ invoked = <<>>
    /\ outcome = [t \in {"gemini", "ollama", "local"} |-> NoOutcome]
    /\ chain_result = [kind |-> "none"]

\* Variant that keeps going down the chain after the primary returned.
CallGemini_continue ==
    /\ chain_pc = "gemini"
    /\ \E o \in Outcomes :
        /\ invoked' = Append(invoked, "gemini")
        /\ outcome' = [outcome EXCEPT !["gemini"] = o]
        /\ chain_pc' = "ollama"
        /\ chain_result' = IF o.kind = "return"
                             THEN [kind |-> "return", val |-> o.val, from |-> "gemini"]
                             ELSE chain_result

\* try: return gemini_call()  / except HTTPException / except Exception
CallGemini ==
    /\ chain_pc = "gemini"
    /\ \E o \in Outcomes :
        /\ invoked' = Append(invoked, "gemini")
        /\ outcome' = [outcome EXCEPT !["gemini"] = o]
        /\ IF o.kind = "return"
             THEN /\ chain_pc' = "returned"
                  /\ chain_result' = [kind |-> "return", val |-> o.val, from |-> "gemini"]
             ELSE IF o.kind = "http" /\ ~_is_recoverable_http_error(o)
                    THEN /\ chain_pc' = "raised"
                         /\ chain_result' = [kind |-> "raise", exc |-> o, from |-> "gemini"]
                    ELSE /\ chain_pc' = "ollama"
                         /\ UNCHANGED chain_result

\* Variant whose handler lets an HTTPException of the secondary escape.
CallOllama_reraise_http ==
    /\ chain_pc = "ollama"
    /\ \E o \in Outcomes :
        /\ invoked' = Append(invoked, "ollama")
        /\ outcome' = [outcome EXCEPT !["ollama"] = o]
        /\ IF o.kind = "return"
             THEN /\ chain_pc' = "returned"
                  /\ chain_result' = [kind |-> "return", val |-> o.val, from |-> "ollama"]
             ELSE IF o.kind = "http"
                    THEN /\ chain_pc' = "raised"
                         /\ chain_result' = [kind |-> "raise", exc |-> o, from |-> "ollama"]
                    ELSE /\ chain_pc' = "local"
                         /\ UNCHANGED chain_result

\* try: return ollama_call()  / except Exception: fall to local_call
CallOllama ==
    /\ chain_pc = "ollama"
    /\ \E o \in Outcomes :
        /\ invoked' = Append(invoked, "ollama")
        /\ outcome' = [outcome EXCEPT !["ollama"] = o]
        /\ IF o.kind = "return"
             THEN /\ chain_pc' = "returned"
                  /\ chain_result' = [kind |-> "return", val |-> o.val, from |-> "ollama"]
             ELSE /\ chain_pc' = "local"
                  /\ UNCHANGED chain_result

\* return local_call()   (inside the except handler: its exception escapes)
CallLocal ==
    /\ chain_pc = "local"
    /\ \E o \in Outcomes :
        /\ invoked' = Append(invoked, "local")
        /\ outcome' = [outcome EXCEPT !["local"] = o]
        /\ IF o.kind = "return"
             THEN /\ chain_pc' = "returned"
                  /\ chain_result' = [kind |-> "return", val |-> o.val, from |-> "local"]
             ELSE /\ chain_pc' = "raised"
                  /\ chain_result' = [kind |-> "raise", exc |-> o, from |-> "local"]


(***************************************************************************)
(* SessionStore, core/session.py                                           *)
(***************************************************************************)

\* Session identifiers callers use, and the threads calling the store.
Ids == {"s1"}
Threads == {"t1", "t2"}

\* session_id = None: ensure() draws a new uuid4.
NoneId == "None"

\* Time-to-live in clock ticks (ttl_minutes, scaled) and the last tick the
\* clock reaches.
TTL == 1
MaxClock == 3

\* Longest chat_history the model lets append_chat build.
MaxChat == 1

Absent == [absent |-> TRUE]
\* Python's None, where a dict could stand.
None == [none |-> TRUE]

SetOps == {"set_transcript", "set_summary", "set_retrieval_chunks", "set_mcqs"}
GetOps == {"get", "get_summary", "get_retrieval_chunks", "get_mcqs"}
Ops == {"ensure", "append_chat"} \cup SetOps \cup GetOps

\* The values callers pass to each operation.
ArgsOf(op) ==
    CASE op = "set_transcript" -> {"T1"}
      [] op = "set_summary" -> {[overview |-> "S1"]}
      [] op = "set_retrieval_chunks" -> {<<"c1">>}
      [] op = "set_mcqs" -> {<<"q1">>}
      [] op = "append_chat" -> [role : {"user", "assistant"}, content : {"m1"}]
      [] OTHER -> {None}

\* The field a set_* operation assigns.
FieldOf(op) ==
    CASE op = "set_transcript" -> "transcript"
      [] op = "set_summary" -> "summary"
      [] op = "set_retrieval_chunks" -> "retrieval_chunks"
      [] op = "set_mcqs" -> "mcqs"
      [] op = "get_summary" -> "summary"
      [] op = "get_retrieval_chunks" -> "retrieval_chunks"
      [] op = "get_mcqs" -> "mcqs"
      [] OTHER -> "chat_history"

\* The record ensure() creates at time now (session.py:20-28).
NewSession(now) ==
    [created_at |-> now, updated_at |-> now, transcript |-> "",
     summary |-> None, retrieval_chunks |-> <<>>, mcqs |-> <<>>,
     chat_history |-> <<>>]

\* Variant of the sweep that never evicts.
_cleanup_expired_locked_never(S, now) == S

\* _cleanup_expired_locked: drop every record with now - updated_at > ttl.
_cleanup_expired_locked(S, now) ==
    [id \in Ids |->
        IF S[id] # Absent /\ now - S[id].updated_at > TTL THEN Absent ELSE S[id]]

\* Variant of ensure's body that skips the eviction sweep.
ensure_body_no_sweep(S, sid, now) ==
    IF S[sid] = Absent
      THEN [S EXCEPT ![sid] = NewSession(now)]
      ELSE [S EXCEPT ![sid].updated_at = now]

\* Body of ensure() for the resolved id sid: sweep, then create or touch.
ensure_body(S, sid, now) ==
    LET C == _cleanup_expired_locked(S, now) IN
    IF C[sid] = Absent
      THEN [C EXCEPT ![sid] = NewSession(now)]
      ELSE [C EXCEPT ![sid].updated_at = now]

\* Variant of get's body that leaves updated_at as it was.
get_body_no_touch(S, sid, now) == _cleanup_expired_locked(S, now)

\* Body of get(): sweep, look up, touch when found.
get_body(S, sid, now) ==
    LET C == _cleanup_expired_locked(S, now) IN
    IF C[sid] = Absent
      THEN C
      ELSE [C EXCEPT ![sid].updated_at = now]

\* What get() and the getters built on it hand back, given the store after
\* get's body.
get_result(S, op, sid) ==
    IF S[sid] = Absent
      THEN IF op \in {"get", "get_summary"} THEN None ELSE <<>>
      ELSE IF op = "get" THEN S[sid] ELSE S[sid][FieldOf(op)]

\* The assignment a set_* / append_chat performs after its ensure().
write_body(S, op, sid, arg, now) ==
    IF op = "append_chat"
      THEN [S EXCEPT ![sid].chat_history = Append(@, arg),
                     ![sid].updated_at = now]
      ELSE [S EXCEPT ![sid][FieldOf(op)] = arg,
                     ![sid].updated_at = now]

Idle == [pc |-> "idle"]

\* No operation completed in the step just taken.
NoRet == [op |-> "none"]

\* expired_keys of the sweep run at time now (session.py:92-96).
expired_keys(S, now) ==
    {id \in Ids : S[id] # Absent /\ now - S[id].updated_at > TTL}

StoreStart ==
    /\ sessions = [id \in Ids |-> Absent]
    /\ clock = 0
    /\ lock = "free"
    /\ thr = [t \in Threads |-> Idle]
    /\ ret = NoRet

\* Variant of the lock that admits a thread whoever holds it.
CanAcquire_unguarded(t) == TRUE

\* RLock.acquire: granted when the lock is free or already held by t.
CanAcquire(t) == lock \in {"free", t}

\* A thread enters an operation: the outermost "with self._lock".
\* session_id = None is passed to ensure only; the handlers give every
\* other operation the id ensure returned.
Begin(t, op, id, arg) ==
    /\ thr[t].pc = "idle"
    /\ id = NoneId => op = "ensure"
    /\ op = "append_chat" /\ sessions[id] # Absent
          => Len(sessions[id].chat_history) < MaxChat
    /\ CanAcquire(t)
    /\ lock' = t
    /\ thr' = [thr EXCEPT ![t] =
                  [pc |-> IF op \in GetOps THEN "get" ELSE "ensure",
                   op |-> op, id |-> id, arg |-> arg]]
    /\ ret' = NoRet
    /\ UNCHANGED <<sessions, clock>>

\* ensure(), called directly or as the first statement of set_* and
\* append_chat (where the lock is re-entered by its holder).  With
\* session_id = None the id is a uuid4, which no resident record uses.
EnsureStep(t) ==
    /\ thr[t].pc = "ensure"
    /\ CanAcquire(t)
    /\ \E sid \in Ids :
        /\ IF thr[t].id = NoneId
             THEN _cleanup_expired_locked(sessions, clock)[sid] = Absent
             ELSE sid = thr[t].id
        /\ sessions' = ensure_body(sessions, sid, clock)
        /\ IF thr[t].op = "ensure"
             THEN /\ thr' = [thr EXCEPT ![t] = Idle]
                  /\ lock' = "free"
                  /\ ret' = [op |-> "ensure", by |-> t, val |-> sid,
                             err |-> "none",
                             expired |-> expired_keys(sessions, clock)]
             ELSE /\ thr' = [thr EXCEPT ![t] =
                                [pc |-> "write", op |-> thr[t].op,
                                 id |-> thr[t].id, arg |-> thr[t].arg,
                                 at |-> clock, seen |-> sessions'[sid],
                                 expired |-> expired_keys(sessions, clock)]]
                  /\ lock' = t
                  /\ ret' = NoRet
    /\ UNCHANGED clock

\* self._sessions[sid][field] = value; updated_at = now; leave the lock.
\* Indexing a missing id raises KeyError, which also leaves the lock.
WriteStep(t) ==
    /\ thr[t].pc = "write"
    /\ LET c == thr[t] IN
       IF sessions[c.id] = Absent
         THEN /\ UNCHANGED sessions
              /\ ret' = [op |-> c.op, by |-> t, val |-> None,
                         err |-> "KeyError", expired |-> c.expired]
         ELSE /\ sessions' = write_body(sessions, c.op, c.id, c.arg, clock)
              /\ ret' = [op |-> c.op, by |-> t, val |-> None,
                         err |-> "none", expired |-> c.expired]
    /\ thr' = [thr EXCEPT ![t] = Idle]
    /\ lock' = "free"
    /\ UNCHANGED clock

\* get() and the getters built on it.
GetStep(t) ==
    /\ thr[t].pc = "get"
    /\ LET c == thr[t] IN
       /\ sessions' = get_body(sessions, c.id, clock)
       /\ ret' = [op |-> c.op, by |-> t,
                  val |-> get_result(sessions', c.op, c.id),
                  err |-> "none", expired |-> expired_keys(sessions, clock)]
    /\ thr' = [thr EXCEPT ![t] = Idle]
    /\ lock' = "free"
    /\ UNCHANGED clock

\* Time passes.
Tick ==
    /\ clock < MaxClock
    /\ clock' = clock + 1
    /\ ret' = NoRet
    /\ UNCHANGED <<sessions, lock, thr>>

(***************************************************************************)
(* Text, services/pipeline_utils.py.  A text is the sequence of its        *)
(* characters, each a one-character string; Chars turns a literal into     *)
(* that form.  Operators over whole texts avoid recursion on characters.   *)
(***************************************************************************)

Chars(str) == [i \in 1..Len(str) |-> SubSeq(str, i, i)]

\* Characters of the texts the chunker is enumerated over, and the longest
\* such text.
Alphabet == {"a", " ", "\n", "[", "]"}
MaxTextLen == 4

Min(a, b) == IF a < b THEN a ELSE b
Max(a, b) == IF a > b THEN a ELSE b

SetMin(S) == CHOOSE x \in S : \A y \in S : x <= y
SetMax(S) == CHOOSE x \in S : \A y \in S : x >= y

\* The elements of a finite set of integers in increasing order.
Sorted(S) ==
    LET rank == [x \in S |-> Cardinality({y \in S : y < x})]
    IN  [k \in 1..Cardinality(S) |-> CHOOSE x \in S : rank[x] = k - 1]

\* All texts of at most n characters over the alphabet.
TextsUpTo(n) == UNION {[1..k -> Alphabet] : k \in 0..n}

\* str.isspace for one character.
IsSpace(c) == c \in {" ", "\n", "\t", "\r"}

\* s[:n] and s[k:] of Python, k possibly negative.
Prefix(s, n) == SubSeq(s, 1, Min(n, Len(s)))
SliceFrom(s, k) ==
    LET start == IF k >= 0 THEN Min(k, Len(s)) ELSE Max(0, Len(s) + k)
    IN  SubSeq(s, start + 1, Len(s))

\* str.strip()
Strip(s) ==
    IF \A i \in 1..Len(s) : IsSpace(s[i]) THEN <<>>
    ELSE LET first == CHOOSE i \in 1..Len(s) :
                          ~IsSpace(s[i]) /\ \A j \in 1..(i - 1) : IsSpace(s[j])
             last == CHOOSE i \in 1..Len(s) :
                          ~IsSpace(s[i]) /\ \A j \in (i + 1)..Len(s) : IsSpace(s[j])
         IN  SubSeq(s, first, last)

\* The characters of s at the positions where keep holds, in order.
Keep(s, keep) ==
    LET tagged == [i \in 1..Len(s) |-> [c |-> s[i], k |-> keep[i]]]
        kept == SelectSeq(tagged, LAMBDA r : r.k)
    IN  [i \in 1..Len(kept) |-> kept[i].c]

\* re.sub(r"\s+", " ", s): every maximal whitespace run becomes one space.
CollapseWS(s) ==
    LET one == [i \in 1..Len(s) |-> IF IsSpace(s[i]) THEN " " ELSE s[i]]
        keep == [i \in 1..Len(s) |-> ~IsSpace(s[i]) \/ i = 1 \/ ~IsSpace(s[i - 1])]
    IN  Keep(one, keep)

\* re.split on the separator characters marked by sep: the maximal runs of
\* unmarked characters, in order (empty pieces are dropped by every caller).
Pieces(s, sep) ==
    LET starts == {i \in 1..Len(s) : ~sep[i] /\ (i = 1 \/ sep[i - 1])}
        ends == {i \in 1..Len(s) : ~sep[i] /\ (i = Len(s) \/ sep[i + 1])}
        st == Sorted(starts)
        en == Sorted(ends)
    IN  [k \in 1..Len(st) |-> SubSeq(s, st[k], en[k])]

\* Most characters a bracketed aside may hold to be removed ({1,40}).
BracketMax == 40

\* Index of the first "]" of s at or after i, 0 when there is none.
RECURSIVE FirstClose(_, _)
FirstClose(s, i) ==
    IF i > Len(s) THEN 0 ELSE IF s[i] = "]" THEN i ELSE FirstClose(s, i + 1)

\* re.sub(r"\[[^\]]{1,40}\]", " ", s): leftmost non-overlapping matches; a
\* match opened at a "[" must close at the first "]" after it.
RECURSIVE StripBracketed(_)
StripBracketed(s) ==
    IF s = <<>> THEN <<>>
    ELSE LET j == FirstClose(s, 2) IN
         IF Head(s) = "[" /\ j >= 3 /\ j - 2 <= BracketMax
           THEN <<" ">> \o StripBracketed(SubSeq(s, j + 1, Len(s)))
           ELSE <<Head(s)>> \o StripBracketed(Tail(s))

\* Longest cleaned transcript kept before truncation (max_chars, scaled
\* down from 120000 so that enumerated texts reach it).
CleanMaxChars == 3

TruncationMarker == Chars(" [Transcript truncated]")

\* clean_transcript_text.  Over the enumerated alphabet the timestamp,
\* parenthesis and speaker-label patterns (lines 84, 86, 87) match nothing.
clean_transcript_text(text) ==
    LET value == Strip(text) IN
    IF value = <<>> THEN <<>>
    ELSE LET v == Strip(CollapseWS(StripBracketed(value))) IN
         IF Len(v) > CleanMaxChars THEN Prefix(v, CleanMaxChars) \o TruncationMarker
         ELSE v

\* re.split(r"\n{2,}", s): the separators are the maximal runs of two or
\* more newlines.
SplitParagraphs(s) ==
    Pieces(s, [i \in 1..Len(s) |->
                  /\ s[i] = "\n"
                  /\ \/ (i > 1 /\ s[i - 1] = "\n")
                     \/ (i < Len(s) /\ s[i + 1] = "\n")])

\* [x.strip() for x in xs if x.strip()]
RECURSIVE StripAndDropEmpty(_)
StripAndDropEmpty(xs) ==
    IF xs = <<>> THEN <<>>
    ELSE IF Strip(Head(xs)) # <<>>
           THEN <<Strip(Head(xs))>> \o StripAndDropEmpty(Tail(xs))
           ELSE StripAndDropEmpty(Tail(xs))

\* Shortest sentence split_sentences keeps.
MinSentenceChars == 18

IsSentenceEnd(c) == c \in {".", "!", "?"}

\* re.split(r"(?<=[.!?])\s+|\n+", s): a whitespace run that directly follows
\* sentence-ending punctuation is a separator as a whole; in any other
\* whitespace run only the newlines are.
SplitSentenceRaw(s) ==
    LET afterEnd(i) == \E k \in 1..(i - 1) :
                          /\ IsSentenceEnd(s[k])
                          /\ \A j \in (k + 1)..i : IsSpace(s[j])
    IN  Pieces(s, [i \in 1..Len(s) |->
                      IsSpace(s[i]) /\ (s[i] = "\n" \/ afterEnd(i))])

RECURSIVE KeepSentences(_)
KeepSentences(xs) ==
    IF xs = <<>> THEN <<>>
    ELSE LET item == Strip(CollapseWS(Head(xs))) IN
         IF Len(item) < MinSentenceChars THEN KeepSentences(Tail(xs))
         ELSE <<item>> \o KeepSentences(Tail(xs))

split_sentences(text) == KeepSentences(SplitSentenceRaw(text))

Join(a, sep, b) == a \o sep \o b

\* Variant of the cap test that never reports the cap as reached.
AtCap_never(chunks, max_chunks) == FALSE

\* len(chunks) >= max_chunks, the test of lines 130 and 137, negated at 141.
AtCap(chunks, max_chunks) == Len(chunks) >= max_chunks

\* Variant that restarts one character late.
Reseed_skips_one(part, max_chars, overlap_chars) ==
    Strip(SliceFrom(part, max_chars - overlap_chars + 1))

\* part[max_chars - overlap_chars:].strip(), line 139: the buffer after a
\* hard slice.  A negative index counts from the end of the paragraph.
Reseed(part, max_chars, overlap_chars) ==
    Strip(SliceFrom(part, max_chars - overlap_chars))

\* The for loop of split_into_chunks (lines 122-139); a break leaves the
\* loop with the buffer as it stands.
RECURSIVE ChunkLoop(_, _, _, _, _, _)
ChunkLoop(parts, chunks, current, max_chars, overlap_chars, max_chunks) ==
    IF parts = <<>> THEN [chunks |-> chunks, current |-> current]
    ELSE
      LET part == Head(parts)
          candidate == IF current # <<>> THEN Strip(Join(current, <<"\n">>, part))
                       ELSE part
      IN
      IF Len(candidate) <= max_chars
        THEN ChunkLoop(Tail(parts), chunks, candidate, max_chars,
                       overlap_chars, max_chunks)
      ELSE IF current # <<>>
        THEN LET cs == Append(chunks, Strip(current)) IN
             IF AtCap(cs, max_chunks) THEN [chunks |-> cs, current |-> current]
             ELSE LET overlap == IF overlap_chars > 0
                                   THEN SliceFrom(current, 0 - overlap_chars)
                                   ELSE <<>>
                  IN  ChunkLoop(Tail(parts), cs,
                                Strip(Join(overlap, <<"\n">>, part)),
                                max_chars, overlap_chars, max_chunks)
      ELSE LET cs == Append(chunks, Strip(Prefix(part, max_chars))) IN
           IF AtCap(cs, max_chunks) THEN [chunks |-> cs, current |-> current]
           ELSE ChunkLoop(Tail(parts), cs,
                          Reseed(part, max_chars, overlap_chars),
                          max_chars, overlap_chars, max_chunks)

\* [x for x in xs if x]
RECURSIVE DropEmpty(_)
DropEmpty(xs) ==
    IF xs = <<>> THEN <<>>
    ELSE IF Head(xs) # <<>> THEN <<Head(xs)>> \o DropEmpty(Tail(xs))
         ELSE DropEmpty(Tail(xs))

split_into_chunks(text, max_chars, overlap_chars, max_chunks) ==
    LET cleaned == clean_transcript_text(text) IN
    IF cleaned = <<>> THEN <<>>
    ELSE
      LET byBlank == StripAndDropEmpty(SplitParagraphs(cleaned))
          paragraphs == IF byBlank = <<>> THEN split_sentences(cleaned) ELSE byBlank
          loop == ChunkLoop(paragraphs, <<>>, <<>>, max_chars, overlap_chars, max_chunks)
          chunks == IF loop.current # <<>> /\ ~AtCap(loop.chunks, max_chunks)
                      THEN Append(loop.chunks, Strip(loop.current))
                      ELSE loop.chunks
      IN  DropEmpty(chunks)

\* Largest arguments of split_into_chunks enumerated.
MaxMaxChars == 3
MaxOverlap == 2
MaxMaxChunks == 3

ChunkParked == [pc |-> "parked"]

\* One call: any text, max_chars >= 1, overlap_chars >= 0, max_chunks >= 1.
ChunkStart ==
    \E text \in TextsUpTo(MaxTextLen), mc \in 1..MaxMaxChars,
       ov \in 0..MaxOverlap, mk \in 1..MaxMaxChunks :
        chk = [pc |-> "call", text |-> text, max_chars |-> mc,
               overlap_chars |-> ov, max_chunks |-> mk]

SplitIntoChunks ==
    /\ chk.pc = "call"
    /\ chk' = [pc |-> "done", text |-> chk.text, max_chars |-> chk.max_chars,
               overlap_chars |-> chk.overlap_chars, max_chunks |-> chk.max_chunks,
               out |-> split_into_chunks(chk.text, chk.max_chars,
                                         chk.overlap_chars, chk.max_chunks)]

(***************************************************************************)
(* Lexical retriever, pipeline_utils.py:9-76, 147-193                      *)
(***************************************************************************)

\* STOPWORDS, lines 9-76.
StopwordList == <<
    "a", "an", "and", "are", "as", "at", "be", "been", "being", "by",
    "for", "from", "has", "have", "in", "into", "is", "it", "its", "of",
    "on", "or", "that", "the", "their", "there", "this", "to", "was",
    "were", "with", "you", "your", "we", "they", "them", "our", "can",
    "could", "would", "should", "may", "might", "not", "than", "then",
    "also", "about", "such", "using", "used", "use", "what", "when",
    "where", "which", "who", "why", "how", "if", "while", "during",
    "before", "after", "over", "under">>

STOPWORDS == {Chars(StopwordList[i]) : i \in 1..Len(StopwordList)}

LowerLetters ==
    {"a", "b", "c", "d", "e", "f", "g", "h", "i", "j", "k", "l", "m", "n",
     "o", "p", "q", "r", "s", "t", "u", "v", "w", "x", "y", "z"}

DigitChars == {"0", "1", "2", "3", "4", "5", "6", "7", "8", "9"}

\* Upper-case letter -> its lower-case form.
ToLower ==
    "A" :> "a" @@ "B" :> "b" @@ "C" :> "c" @@ "D" :> "d" @@ "E" :> "e" @@
    "F" :> "f" @@ "G" :> "g" @@ "H" :> "h" @@ "I" :> "i" @@ "J" :> "j" @@
    "K" :> "k" @@ "L" :> "l" @@ "M" :> "m" @@ "N" :> "n" @@ "O" :> "o" @@
    "P" :> "p" @@ "Q" :> "q" @@ "R" :> "r" @@ "S" :> "s" @@ "T" :> "t" @@
    "U" :> "u" @@ "V" :> "v" @@ "W" :> "w" @@ "X" :> "x" @@ "Y" :> "y" @@
    "Z" :> "z"

\* str.lower(), one character and a whole text.
LowerChar(c) == IF c \in DOMAIN ToLower THEN ToLower[c] ELSE c
Lower(s) == [i \in 1..Len(s) |-> LowerChar(s[i])]

\* [A-Za-z] and [A-Za-z0-9'-] on lower-cased text.
IsLetter(c) == c \in LowerLetters
IsTokChar(c) == c \in LowerLetters \/ c \in DigitChars \/ c \in {"'", "-"}

\* Shortest token: a letter and {2,} further token characters.
MinTokenChars == 3

\* re.findall(r"[A-Za-z][A-Za-z0-9'-]{2,}", text.lower()).  A match starts at
\* the first letter of a maximal run of token characters and takes the run
\* to its end, when that leaves at least three characters.
tokenize_words(text) ==
    LET s == Lower(text)
        n == Len(s)
        runStart(i) == CHOOSE k \in 1..i :
                          /\ k = 1 \/ ~IsTokChar(s[k - 1])
                          /\ \A j \in k..i : IsTokChar(s[j])
        runEnd(i) == CHOOSE k \in i..n :
                          /\ k = n \/ ~IsTokChar(s[k + 1])
                          /\ \A j \in i..k : IsTokChar(s[j])
        starts == {i \in 1..n :
                      /\ IsLetter(s[i])
                      /\ \A k \in runStart(i)..(i - 1) : ~IsLetter(s[k])
                      /\ runEnd(i) - i + 1 >= MinTokenChars}
        st == Sorted(starts)
    IN  [k \in 1..Len(st) |-> SubSeq(s, st[k], runEnd(st[k]))]

\* [token for token in tokenize_words(text) if token not in STOPWORDS]
ContentTokens(text) == SelectSeq(tokenize_words(text), LAMBDA t : t \notin STOPWORDS)

\* Counter(tokens)[tok]
Count(tokens, tok) == Cardinality({i \in 1..Len(tokens) : tokens[i] = tok})

Range(f) == {f[i] : i \in DOMAIN f}

RECURSIVE SumOver(_, _)
SumOver(S, f) ==
    IF S = {} THEN 0
    ELSE LET x == CHOOSE x \in S : TRUE IN f[x] + SumOver(S \ {x}, f)

\* Scores are kept in units of 1/100000: 0.00015 is 15 of them per
\* character beyond the 1100 free ones.
ScoreUnit == 100000
PenaltyPerChar == 15
PenaltyFreeChars == 1100

\* lexical_score - length_penalty of one chunk (lines 181-185).
ChunkScore(query_tokens, chunk) ==
    LET chunk_tokens == ContentTokens(chunk)
        overlap == Range(query_tokens) \cap Range(chunk_tokens)
        lexical_score ==
            SumOver(overlap, [t \in overlap |->
                        Min(Count(query_tokens, t), Count(chunk_tokens, t))])
    IN  lexical_score * ScoreUnit
            - PenaltyPerChar * Max(0, Len(chunk) - PenaltyFreeChars)

\* The (score, chunk) pairs appended to ranked, in chunk order.
RECURSIVE Ranked(_, _)
Ranked(query_tokens, chunks) ==
    IF chunks = <<>> THEN <<>>
    ELSE LET chunk == Head(chunks)
             rest == Ranked(query_tokens, Tail(chunks))
             score == ChunkScore(query_tokens, chunk)
         IN  IF ContentTokens(chunk) = <<>> THEN rest
             ELSE IF score > 0
                    THEN <<[score |-> score, chunk |-> chunk]>> \o rest
                    ELSE rest

\* list.sort(key=score, reverse=True): descending and stable.
RECURSIVE SortByScoreDesc(_)
SortByScoreDesc(xs) ==
    IF xs = <<>> THEN <<>>
    ELSE LET init == SubSeq(xs, 1, Len(xs) - 1)
             x == xs[Len(xs)]
             sorted == SortByScoreDesc(init)
             ahead == SelectSeq(sorted, LAMBDA y : y.score >= x.score)
             behind == SelectSeq(sorted, LAMBDA y : y.score < x.score)
         IN  ahead \o <<x>> \o behind

\* Variant that returns the whole ranking.
select_top_chunks_for_query_uncut(query, chunks, top_k) ==
    IF chunks = <<>> THEN <<>>
    ELSE LET query_tokens == ContentTokens(query) IN
         IF query_tokens = <<>> THEN Prefix(chunks, top_k)
         ELSE LET ranked == Ranked(query_tokens, chunks) IN
              IF ranked = <<>> THEN Prefix(chunks, top_k)
              ELSE LET sorted == SortByScoreDesc(ranked)
                   IN  [i \in 1..Len(sorted) |-> sorted[i].chunk]

select_top_chunks_for_query(query, chunks, top_k) ==
    IF chunks = <<>> THEN <<>>
    ELSE LET query_tokens == ContentTokens(query) IN
         IF query_tokens = <<>> THEN Prefix(chunks, top_k)
         ELSE LET ranked == Ranked(query_tokens, chunks) IN
              IF ranked = <<>> THEN Prefix(chunks, top_k)
              ELSE LET sorted == Prefix(SortByScoreDesc(ranked), top_k)
                   IN  [i \in 1..Len(sorted) |-> sorted[i].chunk]

\* Length of the filler that makes a chunk long enough for the length
\* penalty to cancel one shared token (1100 + 100000/15 characters).
PadChars == 7800

LongChunk == Chars("cell ") \o [i \in 1..PadChars |-> "."]

\* The queries and chunk texts the retriever is exercised on.
Queries ==
    {Chars(""), Chars("the"), Chars("is it"), Chars("ab c"), Chars("cell"),
     Chars("What is the Cell gene?"), Chars("dna dna gene"), Chars("x-ray 2nd")}

ChunkTexts ==
    {Chars("The cell divides."), Chars("gene, cell; Cell"), Chars("dna and gene"),
     Chars("it is"), Chars("x-ray of dna-2")}

\* Longest chunk list and largest top_k enumerated.
MaxChunkList == 3
MaxTopK == 4

\* Every list of at most n of the chunk texts, and lists holding the
\* over-long chunk.
ChunkLists(n) ==
    UNION {[1..k -> ChunkTexts] : k \in 0..n}
        \cup {<<LongChunk>>,
              <<LongChunk, Chars("dna and gene")>>,
              <<Chars("The cell divides."), LongChunk, Chars("gene, cell; Cell")>>}

SelParked == [pc |-> "parked"]

SelectStart ==
    \E q \in Queries, cs \in ChunkLists(MaxChunkList), k \in 0..MaxTopK :
        sel = [pc |-> "call", query |-> q, chunks |-> cs, top_k |-> k]

SelectTopChunks ==
    /\ sel.pc = "call"
    /\ sel' = [pc |-> "done", query |-> sel.query, chunks |-> sel.chunks,
               top_k |-> sel.top_k,
               out |-> select_top_chunks_for_query(sel.query, sel.chunks, sel.top_k)]

(***************************************************************************)
(* Summary validation, services/pipeline_utils.py                          *)
(***************************************************************************)

\* dedupe_strings: items with their whitespace collapsed and stripped, the
\* empty ones dropped, the first of every case-insensitive key kept.
dedupe_strings(items) ==
    LET value == [i \in 1..Len(items) |-> Strip(CollapseWS(items[i]))]
        key == [i \in 1..Len(items) |-> Lower(value[i])]
        first == [i \in 1..Len(items) |->
                     value[i] # <<>> /\ \A j \in 1..(i - 1) : key[j] # key[i]]
    IN  Keep(value, first)

\* items[a:b] of Python, 0 <= a <= b.
Slice(s, a, b) == SubSeq(s, Min(a, Len(s)) + 1, Min(b, Len(s)))

\* " ".join(xs) for sep = " ".
RECURSIVE JoinAll(_, _)
JoinAll(xs, sep) ==
    IF xs = <<>> THEN <<>>
    ELSE IF Len(xs) = 1 THEN xs[1]
    ELSE xs[1] \o sep \o JoinAll(Tail(xs), sep)

\* _shorten: value[:max_chars].rsplit(" ", 1)[0] + "..." drops what follows
\* the last space of the prefix, and nothing when the prefix has no space.
_shorten(text, max_chars) ==
    LET value == Strip(CollapseWS(text)) IN
    IF Len(value) <= max_chars THEN value
    ELSE LET head == Prefix(value, max_chars)
             cut == IF \A i \in 1..Len(head) : head[i] # " " THEN head
                    ELSE LET last == CHOOSE i \in 1..Len(head) :
                                        /\ head[i] = " "
                                        /\ \A j \in (i + 1)..Len(head) : head[j] # " "
                         IN  SubSeq(head, 1, last - 1)
         IN  cut \o Chars("...")

\* Item bounds of _ensure_item_range, the length an item must exceed to be
\* kept, and the truncation lengths of items and of overview paragraphs.
MinItems == 4
MaxItems == 8
MinItemChars == 8
ItemMaxChars == 180
ParagraphMaxChars == 620

FillerText == Chars(": Revise this idea and connect it to the lecture theme.")

\* f"{label} {n}: Revise this idea and connect it to the lecture theme."
Filler(label, n) == label \o Chars(" ") \o Chars(ToString(n)) \o FillerText

\* while len(normalized) < min_items: normalized.append(filler)
RECURSIVE PadItems(_, _)
PadItems(normalized, label) ==
    IF Len(normalized) >= MinItems THEN normalized
    ELSE PadItems(Append(normalized, Filler(label, Len(normalized) + 1)), label)

\* [_shorten(item, max_chars) for item in items]
ShortenAll(items, max_chars) ==
    [i \in 1..Len(items) |-> _shorten(items[i], max_chars)]

_ensure_item_range(items, label) ==
    LET normalized == dedupe_strings(items)
        kept == SelectSeq(normalized, LAMBDA item : Len(Strip(item)) > MinItemChars)
    IN  PadItems(Prefix(ShortenAll(kept, ItemMaxChars), MaxItems), label)

\* The three template paragraphs returned when the source has no sentence
\* (lines 225-240).
TemplateOverview(concepts_clean) ==
    LET seed == IF concepts_clean # <<>> THEN Prefix(concepts_clean, 4)
                ELSE <<Chars("this lecture presents core academic ideas and applications")>>
        at(i) == IF Len(seed) >= i THEN seed[i] ELSE seed[1]
    IN  << Chars("This lecture introduces the topic framework and sets foundational context for understanding the ")
               \o Chars("subject scope, with early emphasis on ") \o seed[1] \o Chars("."),
           Chars("The middle portion expands the theory through method-level reasoning and conceptual links, ")
               \o Chars("especially around ") \o at(2) \o Chars(" and related principles."),
           Chars("For exam preparation, connect definitions, reasoning steps, and applications into a coherent ")
               \o Chars("answer structure, focusing on ") \o at(3) \o Chars(".") >>

\* sentence_score: the source-wide counts of the sentence's distinct
\* content tokens, summed.
sentence_score(source_tokens, sentence) ==
    LET tokens == Range(ContentTokens(sentence))
    IN  SumOver(tokens, [t \in tokens |-> Count(source_tokens, t)])

\* pick_unique, continued from the sentences already picked: returns the
\* picked sentences and the updated set of used keys.
RECURSIVE PickLoop(_, _, _, _)
PickLoop(pool, used, target, picked) ==
    IF pool = <<>> THEN [picked |-> picked, used |-> used]
    ELSE LET sentence == Head(pool)
             key == Lower(sentence)
         IN  IF key \in used THEN PickLoop(Tail(pool), used, target, picked)
             ELSE IF Len(picked) + 1 >= target
                    THEN [picked |-> Append(picked, sentence), used |-> used \cup {key}]
                    ELSE PickLoop(Tail(pool), used \cup {key}, target,
                                  Append(picked, sentence))

pick_unique(pool, used, target) == PickLoop(pool, used, target, <<>>)

\* para = " ".join(sentences).strip(); if para: para += closing
Paragraph(sentences, closing) ==
    LET para == Strip(JoinAll(sentences, Chars(" ")))
    IN  IF para # <<>> THEN para \o closing ELSE para

\* The fallback paragraph appended as paragraph number fallback_index.
FallbackParagraph(fallback_index, concepts_clean) ==
    LET concept == IF Len(concepts_clean) >= fallback_index
                     THEN concepts_clean[fallback_index]
                     ELSE Chars("core lecture ideas")
    IN  _shorten(Chars("The lecture can be revised effectively by linking theory to example-driven explanation. ")
                     \o Chars("Paragraph ") \o Chars(ToString(fallback_index))
                     \o Chars(" focus: ") \o concept \o Chars("."),
                 ParagraphMaxChars)

\* while len(paragraphs) < 3: paragraphs.append(fallback)
RECURSIVE PadParagraphs(_, _)
PadParagraphs(paragraphs, concepts_clean) ==
    IF Len(paragraphs) >= 3 THEN paragraphs
    ELSE PadParagraphs(Append(paragraphs,
                              FallbackParagraph(Len(paragraphs) + 1, concepts_clean)),
                       concepts_clean)

\* sorted(sentences, key=sentence_score, reverse=True), line 248.
Scored(source_tokens, sentences) ==
    [i \in 1..Len(sentences) |->
        [score |-> sentence_score(source_tokens, sentences[i]),
         sentence |-> sentences[i]]]

SentencesOf(sorted) == [i \in 1..Len(sorted) |-> sorted[i].sentence]

ranked_sentences(source_text, sentences) ==
    SentencesOf(SortByScoreDesc(Scored(ContentTokens(source_text), sentences)))

\* Lines 251-253 and 267-270: each paragraph picks from its pool the
\* sentences no earlier paragraph used.
PickFirst(top_sentences) ==
    LET p == pick_unique(Prefix(top_sentences, 6), {}, 3)
    IN  [used |-> p.used, para1 |-> p.picked]

PickSecond(top_sentences, acc) ==
    LET p == pick_unique(Slice(top_sentences, 3, 12), acc.used, 3)
    IN  [used |-> p.used, para1 |-> acc.para1, para2 |-> p.picked]

PickThird(top_sentences, acc) ==
    LET evidence_pool == IF Len(top_sentences) > 8
                           THEN Slice(top_sentences, 8, 15)
                           ELSE SliceFrom(top_sentences, 4)
        p == pick_unique(evidence_pool, acc.used, 2)
    IN  [used |-> p.used, para1 |-> acc.para1, para2 |-> acc.para2,
         para3 |-> p.picked]

\* Lines 272-273 and 274-275: a paragraph short of two sentences is
\* topped up from all the top sentences.
ExtendSecond(top_sentences, acc) ==
    IF Len(acc.para2) >= 2 THEN acc
    ELSE LET p == pick_unique(top_sentences, acc.used, 2 - Len(acc.para2))
         IN  [acc EXCEPT !.used = p.used, !.para2 = acc.para2 \o p.picked]

ExtendThird(top_sentences, acc) ==
    IF Len(acc.para3) >= 2 THEN acc
    ELSE LET p == pick_unique(top_sentences, acc.used, 2 - Len(acc.para3))
         IN  [acc EXCEPT !.used = p.used, !.para3 = acc.para3 \o p.picked]

\* The three paragraphs of lines 277-298, blank ones included.
SentenceParagraphs(top_sentences) ==
    LET acc == ExtendThird(top_sentences,
                   ExtendSecond(top_sentences,
                       PickThird(top_sentences,
                           PickSecond(top_sentences, PickFirst(top_sentences)))))
    IN  << Paragraph(acc.para1,
               Chars(" Together, these points establish the lecture's foundational ideas and clarify the conceptual ")
                   \o Chars("baseline for further study.")),
           Paragraph(acc.para2,
               Chars(" This section also clarifies how methods, assumptions, and interpretation steps interact in practice, ")
                   \o Chars("which is critical for accurate exam responses.")),
           Paragraph(acc.para3,
               Chars(" For revision, prioritize definition clarity, method explanation, and application-focused reasoning so ")
                   \o Chars("answers remain factual, structured, and exam-ready.")) >>

\* Lines 242-313, the overview built from the sentences of the source.
SentenceOverview(source_text, sentences, concepts_clean) ==
    LET top_sentences == dedupe_strings(Prefix(ranked_sentences(source_text, sentences), 15))
        nonblank == SelectSeq(SentenceParagraphs(top_sentences), LAMBDA p : Strip(p) # <<>>)
        paragraphs == dedupe_strings(ShortenAll(nonblank, ParagraphMaxChars))
    IN  Prefix(PadParagraphs(paragraphs, concepts_clean), 3)

build_three_paragraph_overview(source_text, concepts) ==
    LET sentences == dedupe_strings(split_sentences(source_text))
        concepts_clean == dedupe_strings(concepts)
    IN  IF sentences = <<>> THEN TemplateOverview(concepts_clean)
        ELSE SentenceOverview(source_text, sentences, concepts_clean)

\* Lines 334-338: the generated paragraphs not yet in the overview are
\* appended, compared case-insensitively, until the overview holds three.
RECURSIVE AppendMissing(_, _)
AppendMissing(overview, generated) ==
    IF generated = <<>> \/ Len(overview) >= 3 THEN overview
    ELSE LET paragraph == Head(generated) IN
         IF Lower(paragraph) \notin {Lower(overview[i]) : i \in 1..Len(overview)}
           THEN AppendMissing(Append(overview, paragraph), Tail(generated))
           ELSE AppendMissing(overview, Tail(generated))

\* Length of the over-long items, beyond the 180 characters an item keeps.
LongItemChars == 200

\* Most passes of the loop counted; the loop itself is not bounded.
MaxLoopIters == 3

\* The candidate fields and source texts validation is exercised on.
OverviewInputs ==
    { <<>>,
      <<Chars("First overview paragraph of the lecture."),
        Chars("Second overview paragraph."),
        Chars("Third overview paragraph.")>>,
      <<Chars("Alpha overview paragraph."), Chars("ALPHA  overview paragraph."),
        Chars("   ")>>,
      <<Chars("Alpha overview paragraph."), Chars("Beta overview paragraph."),
        Chars("alpha overview paragraph."), Chars("Gamma overview paragraph."),
        Chars("Delta overview paragraph.")>> }

ConceptInputs ==
    { <<>>,
      <<Chars("first concept here"),
        Chars("gradient descent Together, these points establish the lecture's foundational ideas and clarify the conceptual baseline for further study")>>,
      <<Chars("gradient descent"), Chars("Gradient Descent"), Chars("short"),
        Chars("learning rate"), Chars("loss function"), Chars("backpropagation"),
        Chars("overfitting"), Chars("weights"), Chars("regularization"),
        Chars("momentum term"), Chars("batch size"), Chars("epoch count")>>,
      <<[i \in 1..LongItemChars |-> "x"] \o Chars("a"),
        [i \in 1..LongItemChars |-> "x"] \o Chars("b"),
        [i \in 1..LongItemChars |-> IF i % 5 = 0 THEN " " ELSE "w"] \o Chars("end")>> }

DefinitionInputs ==
    { <<>>,
      <<Chars("Definition 2") \o FillerText>>,
      <<Chars("Gradient Descent rule"), Chars("gradient descent RULE"),
        Chars("  spaced   out  item text ")>> }

ExampleInputs ==
    { <<>>, <<Chars("Example 4") \o FillerText, Chars("worked example of descent")>> }

RevisionInputs ==
    { <<>>,
      <<[i \in 1..LongItemChars |-> IF i % 7 = 0 THEN " " ELSE "r"],
        Chars("tiny"), Chars("Revise the update rule")>> }

SourceInputs ==
    { <<>>,
      Chars("The lecture can be revised effectively by linking theory to example-driven explanation. Paragraph 2 focus: gradient descent"),
      Chars("Gradient descent updates the weights. Too short. The learning rate controls the step size!\nno stop here"),
      Chars("Gradient descent updates the weights. The learning rate controls the step size. ")
          \o Chars("A loss function measures the error! Does momentum speed up gradient descent? ")
          \o Chars("Gradient noise comes from small batches. Regularization limits large weights. ")
          \o Chars("Validation data detects overfitting early. Each epoch visits the whole data set. ")
          \o Chars("Backpropagation computes each gradient. The gradient of the loss guides learning. ")
          \o Chars("gradient descent updates the WEIGHTS. Batches trade noise for speed.") }

Summaries ==
    [overview_paragraphs : OverviewInputs, key_definitions : DefinitionInputs,
     core_concepts : ConceptInputs, important_examples : ExampleInputs,
     exam_revision_points : RevisionInputs]

ValParked == [pc |-> "parked"]

ValidateStart ==
    \E s \in Summaries, t \in SourceInputs :
        val = [pc |-> "call", summary |-> s, source_text |-> t]

\* validate_structured_summary up to the test of the while loop (lines
\* 317-332).
Validate ==
    /\ val.pc = "call"
    /\ LET s == val.summary
           core == _ensure_item_range(s.core_concepts, Chars("Concept"))
           cut == Prefix(dedupe_strings(s.overview_paragraphs), 3)
           overview == dedupe_strings(
                           IF Len(cut) < 3
                             THEN build_three_paragraph_overview(val.source_text, core)
                             ELSE cut)
           validated ==
               [overview_paragraphs |-> overview,
                key_definitions |-> _ensure_item_range(s.key_definitions, Chars("Definition")),
                core_concepts |-> core,
                important_examples |-> _ensure_item_range(s.important_examples, Chars("Example")),
                exam_revision_points |->
                    _ensure_item_range(s.exam_revision_points, Chars("Revision Point"))]
       IN  val' = [pc |-> IF Len(overview) < 3 THEN "loop" ELSE "done",
                   summary |-> s, source_text |-> val.source_text,
                   validated |-> validated, iters |-> 0]

\* One pass of the while loop (lines 332-338), back to its test.
LoopIter ==
    /\ val.pc = "loop"
    /\ LET generated == build_three_paragraph_overview(val.source_text,
                                                       val.validated.core_concepts)
           overview == AppendMissing(val.validated.overview_paragraphs, generated)
       IN  val' = [val EXCEPT !.pc = IF Len(overview) < 3 THEN "loop" ELSE "done",
                              !.validated.overview_paragraphs = overview,
                              !.iters = Min(val.iters + 1, MaxLoopIters)]

(***************************************************************************)
(* Offline question generator, services/local_ai_service.py:209-259        *)
(***************************************************************************)

\* Questions per call, and the lengths the correct statement and a
\* distractor are shortened to.
McqCount == 5
FactMaxChars == 120
DistractorMaxChars == 110

\* The fact used when the pool is empty, and the distractor that fills up
\* a short list of distractors.
DefaultFact == Chars("The lecture covers foundational concepts and their practical usage.")
GenericDistractor == Chars("This statement is not directly supported by the lecture notes.")

\* The first two sentences of every context chunk, in order (lines 210-212).
RECURSIVE context_facts(_)
context_facts(context_chunks) ==
    IF context_chunks = <<>> THEN <<>>
    ELSE Prefix(split_sentences(Head(context_chunks)), 2)
             \o context_facts(Tail(context_chunks))

\* The fact pool of lines 214-223.
FactPool(summary, context_chunks) ==
    LET pool == dedupe_strings(summary.core_concepts \o summary.key_definitions
                                   \o summary.important_examples
                                   \o summary.exam_revision_points
                                   \o context_facts(context_chunks))
    IN  IF pool = <<>> THEN <<DefaultFact>> ELSE pool

\* The loop of lines 231-237: the first three shortened pool entries that
\* differ from the fact when compared in lower case.
RECURSIVE PickDistractors(_, _, _)
PickDistractors(pool, fact, distractors) ==
    IF pool = <<>> THEN distractors
    ELSE LET option == _shorten(Head(pool), DistractorMaxChars) IN
         IF Lower(option) = Lower(fact) THEN PickDistractors(Tail(pool), fact, distractors)
         ELSE IF Len(distractors) + 1 >= 3 THEN Append(distractors, option)
         ELSE PickDistractors(Tail(pool), fact, Append(distractors, option))

\* while len(distractors) < 3: distractors.append(generic), lines 239-240.
RECURSIVE PadDistractors(_)
PadDistractors(distractors) ==
    IF Len(distractors) >= 3 THEN distractors
    ELSE PadDistractors(Append(distractors, GenericDistractor))

\* options[rotation:] + options[:rotation], line 244.
Rotate(options, rotation) ==
    SliceFrom(options, rotation) \o Prefix(options, rotation)

\* Variant that reports the position the fact had before the rotation.
index_of_unrotated(options, fact) == 0

\* options.index(fact), line 245: the 0-based position of the first option
\* equal to the fact.
index_of(options, fact) ==
    (CHOOSE i \in 1..Len(options) :
        options[i] = fact /\ \A j \in 1..(i - 1) : options[j] # fact) - 1

\* One question (lines 227-257), index counted from 0.
MakeMcq(pool, index) ==
    LET fact == _shorten(pool[(index % Len(pool)) + 1], FactMaxChars)
        distractors == PadDistractors(PickDistractors(pool, fact, <<>>))
        options == Rotate(<<fact>> \o SubSeq(distractors, 1, 3), index % 4)
    IN  [question |-> Chars("Which option is most consistent with this lecture statement: \"")
                          \o fact \o Chars("\"?"),
         options |-> options,
         correct_index |-> index_of(options, fact),
         explanation |-> "Correct option matches the grounded lecture statement, while distractors either shift context or weaken technical accuracy."]

generate_mcqs(summary, context_chunks) ==
    LET pool == FactPool(summary, context_chunks)
    IN  [i \in 1..McqCount |-> MakeMcq(pool, i - 1)]

\* The summaries and context chunks the generator is exercised on: pools of
\* no, one, few and many facts, facts longer than either shortening length,
\* two facts alike in their first 110 characters, and the generic
\* distractor itself as a fact.
LongFactStem ==
    Chars("Stochastic gradient descent estimates the gradient of the loss from a small random batch of training examples and")

McqConceptInputs ==
    { <<>>,
      <<Chars("Gradient descent follows the negative gradient.")>>,
      <<Chars("Gradient descent follows the negative gradient."),
        Chars("The learning rate sets the step size."),
        Chars("Momentum averages past gradients."),
        Chars("A loss function measures the error."),
        Chars("Backpropagation applies the chain rule."),
        Chars("An epoch is one pass over the data.")>>,
      <<LongFactStem \o Chars(" updates every weight."),
        LongFactStem \o Chars(" updates each bias term."),
        Chars("Gradient descent follows the negative gradient.")>>,
      <<Chars("Regularization adds a penalty on large weights to the loss so that the fitted model generalizes to unseen data ok."),
        Chars("The learning rate sets the step size.")>> }

McqDefinitionInputs ==
    { <<>>,
      <<GenericDistractor,
        Chars("  gradient  DESCENT follows the negative gradient. ")>>,
      <<Chars("Overfitting: fitting noise in the training data."),
        Chars("Batch: the examples used for one update.")>> }

McqExampleInputs ==
    { <<>>, <<Chars("Example: fitting a line to noisy points.")>> }

McqRevisionInputs ==
    { <<>>,
      <<Chars("Revise the update rule."), Chars("Compare batch sizes.")>> }

McqSummaries ==
    [overview_paragraphs : {<<>>}, key_definitions : McqDefinitionInputs,
     core_concepts : McqConceptInputs, important_examples : McqExampleInputs,
     exam_revision_points : McqRevisionInputs]

McqContextInputs ==
    { <<>>,
      <<Chars("Validation data detects overfitting. Early stopping halts the training! Dropped third sentence here.")>>,
      <<Chars("too short"), Chars("Weight decay shrinks the weights.\nA loss function measures the error.")>> }

McqParked == [pc |-> "parked"]

McqStart ==
    \E s \in McqSummaries, cs \in McqContextInputs :
        mcq = [pc |-> "call", summary |-> s, context_chunks |-> cs]

GenerateMcqs ==
    /\ mcq.pc = "call"
    /\ mcq' = [pc |-> "done", summary |-> mcq.summary,
               context_chunks |-> mcq.context_chunks,
               out |-> generate_mcqs(mcq.summary, mcq.context_chunks)]

(***************************************************************************)
(* Offline solver, services/local_ai_service.py.  solver_chat tries the    *)
(* arithmetic evaluator, then the linear-equation solver, then answers     *)
(* with the generic framework.                                             *)
(***************************************************************************)

\* A value of the evaluation.  k is "int" or "float" (the number n/d in
\* lowest terms, d > 0, the float -0.0 being 0/-1), "inf" (n is its sign),
\* "nan", or else the name of the exception raised in place of a value.
Num(k, n, d) == [k |-> k, n |-> n, d |-> d]
Exc(name) == Num(name, 0, 0)
IntVal(n) == Num("int", n, 1)
Inf(sign) == Num("inf", sign, 0)
NaN == Num("nan", 0, 0)

IsFinite(v) == v.k \in {"int", "float"}
IsNumber(v) == v.k \in {"int", "float", "inf", "nan"}
IsRaised(v) == ~IsNumber(v)
IsZero(v) == IsFinite(v) /\ v.n = 0

Abs(n) == IF n < 0 THEN -n ELSE n
Sgn(n) == IF n < 0 THEN -1 ELSE IF n > 0 THEN 1 ELSE 0

RECURSIVE GCD(_, _)
GCD(a, b) == IF b = 0 THEN a ELSE GCD(b, a % b)

RECURSIVE IntPow(_, _)
IntPow(n, e) == IF e = 0 THEN 1 ELSE n * IntPow(n, e - 1)

Pow10(e) == IntPow(10, e)

\* floor(n / d) for d # 0.
FloorQ(n, d) == IF d > 0 THEN n \div d ELSE (-n) \div (-d)

\* Largest finite float (sys.float_info.max, about 1.797e308, scaled down so
\* that the enumerated expressions reach it).
FloatMax == 1797

\* |n/d| is beyond the largest float (d # 0).
Beyond(n, d) ==
    LET q == Abs(n) \div Abs(d)
    IN  q > FloatMax \/ (q = FloatMax /\ Abs(n) % Abs(d) # 0)

\* The float n/d (d # 0) of an arithmetic result: a result beyond the
\* largest float is an infinity, without any exception.
Float(n, d) ==
    LET s == IF d < 0 THEN -1 ELSE 1
        g == GCD(Abs(n), Abs(d))
    IN  IF Beyond(n, d) THEN Inf(Sgn(n) * s)
        ELSE Num("float", (s * n) \div g, (s * d) \div g)

\* float(v): an int beyond the largest float raises OverflowError.
ToFloat(v) ==
    IF v.k # "int" THEN v
    ELSE IF Abs(v.n) > FloatMax THEN Exc("OverflowError")
    ELSE Num("float", v.n, 1)

\* The sign of a number, that of a zero included.
SignOf(v) ==
    IF v.k = "inf" THEN v.n
    ELSE IF v.n # 0 THEN Sgn(v.n)
    ELSE IF v.d < 0 THEN -1 ELSE 1

\* The float zero of a sign.
Zero(sign) == Num("float", 0, sign)

Neg(v) ==
    IF v.k = "float" /\ v.n = 0 THEN Zero(-SignOf(v))
    ELSE IF IsFinite(v) THEN Num(v.k, -v.n, v.d)
    ELSE IF v.k = "inf" THEN Inf(-v.n) ELSE v

\* float + float, float * float, float / float (divisor not zero),
\* float // float and float % float of IEEE 754 as Python exposes them.
FloatAdd(x, y) ==
    IF x.k = "nan" \/ y.k = "nan" THEN NaN
    ELSE IF x.k = "inf" /\ y.k = "inf" THEN (IF x.n = y.n THEN x ELSE NaN)
    ELSE IF x.k = "inf" THEN x
    ELSE IF y.k = "inf" THEN y
    ELSE Float(x.n * y.d + y.n * x.d, x.d * y.d)

FloatMult(x, y) ==
    IF x.k = "nan" \/ y.k = "nan" THEN NaN
    ELSE IF x.k = "inf" \/ y.k = "inf"
      THEN (IF x.n = 0 \/ y.n = 0 THEN NaN ELSE Inf(Sgn(x.n) * Sgn(y.n)))
    ELSE IF x.n = 0 \/ y.n = 0 THEN Zero(SignOf(x) * SignOf(y))
    ELSE Float(x.n * y.n, x.d * y.d)

FloatDiv(x, y) ==
    IF x.k = "nan" \/ y.k = "nan" THEN NaN
    ELSE IF x.k = "inf" /\ y.k = "inf" THEN NaN
    ELSE IF x.k = "inf" THEN Inf(x.n * Sgn(y.n))
    ELSE IF y.k = "inf" \/ x.n = 0 THEN Zero(SignOf(x) * SignOf(y))
    ELSE Float(x.n * y.d, x.d * y.n)

FloatFloorDiv(x, y) ==
    IF x.k = "nan" \/ y.k = "nan" \/ x.k = "inf" THEN NaN
    ELSE IF y.k = "inf"
      THEN (IF x.n = 0 \/ Sgn(x.n) = y.n THEN Num("float", 0, 1)
            ELSE Num("float", -1, 1))
    ELSE Float(FloorQ(x.n * y.d, x.d * y.n), 1)

FloatMod(x, y) ==
    IF x.k = "nan" \/ y.k = "nan" \/ x.k = "inf" THEN NaN
    ELSE IF y.k = "inf" THEN (IF x.n = 0 \/ Sgn(x.n) = y.n THEN x ELSE y)
    ELSE LET q == FloorQ(x.n * y.d, x.d * y.n)
         IN  Float(x.n * y.d - q * y.n * x.d, x.d * y.d)

\* A binary operation with a float operand: both operands become floats.
Coerced(a, b, op(_, _)) ==
    LET x == ToFloat(a)
        y == ToFloat(b)
    IN  IF IsRaised(x) THEN x ELSE IF IsRaised(y) THEN y ELSE op(x, y)

BothInt(a, b) == a.k = "int" /\ b.k = "int"

Add(a, b) == IF BothInt(a, b) THEN IntVal(a.n + b.n) ELSE Coerced(a, b, FloatAdd)
Sub(a, b) == IF BothInt(a, b) THEN IntVal(a.n - b.n) ELSE Coerced(a, Neg(b), FloatAdd)
Mult(a, b) == IF BothInt(a, b) THEN IntVal(a.n * b.n) ELSE Coerced(a, b, FloatMult)

\* a / b: a zero divisor raises; int / int is the correctly rounded
\* quotient, an OverflowError when that is beyond the largest float.
Div(a, b) ==
    IF IsZero(b) THEN Exc("ZeroDivisionError")
    ELSE IF BothInt(a, b)
      THEN (IF Beyond(a.n, b.n) THEN Exc("OverflowError")
            ELSE IF a.n = 0 THEN Zero(Sgn(b.n))
            ELSE Float(a.n, b.n))
    ELSE Coerced(a, b, FloatDiv)

FloorDiv(a, b) ==
    IF IsZero(b) THEN Exc("ZeroDivisionError")
    ELSE IF BothInt(a, b) THEN IntVal(FloorQ(a.n, b.n))
    ELSE Coerced(a, b, FloatFloorDiv)

Mod(a, b) ==
    IF IsZero(b) THEN Exc("ZeroDivisionError")
    ELSE IF BothInt(a, b) THEN IntVal(a.n - b.n * FloorQ(a.n, b.n))
    ELSE Coerced(a, b, FloatMod)

\* a ** b for an int exponent b (the exponents of the enumerated
\* expressions).  int ** int is exact for b >= 0 and a float for b < 0; a
\* float power beyond the largest float raises OverflowError, unlike the
\* other float operations.
Pow(a, b) ==
    LET e == Abs(b.n) IN
    IF IsFinite(a) /\ a.n = 0 /\ b.n < 0 THEN Exc("ZeroDivisionError")
    ELSE IF a.k = "int" /\ b.n >= 0 THEN IntVal(IntPow(a.n, e))
    ELSE IF IsFinite(a)
      THEN LET n == IF b.n >= 0 THEN IntPow(a.n, e) ELSE IntPow(a.d, e)
               d == IF b.n >= 0 THEN IntPow(a.d, e) ELSE IntPow(a.n, e)
           IN  IF Beyond(n, d) THEN Exc("OverflowError")
               ELSE Float(n, d)
    ELSE IF b.n = 0 THEN Num("float", 1, 1)
    ELSE IF a.k = "nan" THEN NaN
    ELSE IF b.n < 0 THEN Num("float", 0, 1)
    ELSE Inf(IF a.n < 0 /\ e % 2 = 1 THEN -1 ELSE 1)

\* One binary operation of the interpreter: an exception raised by an
\* operand wins, the left operand first.
Apply(op, a, b) ==
    IF IsRaised(a) THEN a
    ELSE IF IsRaised(b) THEN b
    ELSE CASE op = "Add" -> Add(a, b)
           [] op = "Sub" -> Sub(a, b)
           [] op = "Mult" -> Mult(a, b)
           [] op = "Div" -> Div(a, b)
           [] op = "FloorDiv" -> FloorDiv(a, b)
           [] op = "Mod" -> Mod(a, b)
           [] op = "Pow" -> Pow(a, b)

\* Syntax trees (the nodes of the ast module).  A numeric Constant holds the
\* decimal m * 10^-e it was written as; True is the int 1.
IntLit(n) == [node |-> "Constant", type |-> "int", m |-> n, e |-> 0]
FloatLit(m, e) == [node |-> "Constant", type |-> "float", m |-> m, e |-> e]
BoolTrue == [node |-> "Constant", type |-> "bool", m |-> 1, e |-> 0]
StrLit == [node |-> "Constant", type |-> "str", m |-> 0, e |-> 0]
BinOp(op, left, right) == [node |-> "BinOp", op |-> op, left |-> left, right |-> right]
UnaryOp(op, operand) == [node |-> "UnaryOp", op |-> op, operand |-> operand]
Name(id) == [node |-> "Name", id |-> id]
Call(func) == [node |-> "Call", func |-> func]
Attribute(value, attr) == [node |-> "Attribute", value |-> value, attr |-> attr]
EmptyTuple == [node |-> "Tuple"]
NoTree == [node |-> "SyntaxError"]

\* eval(compile(node, "<expr>", "eval"), {"__builtins__": {}}, {}) on a tree
\* of numeric constants and arithmetic operators.
RECURSIVE Eval(_)
Eval(t) ==
    CASE t.node = "Constant" ->
            (IF t.type = "float" THEN Float(t.m, Pow10(t.e))
             ELSE IF t.type \in {"int", "bool"} THEN IntVal(t.m)
             ELSE Exc("TypeError"))
      [] t.node = "UnaryOp" ->
            (IF t.op = "USub" THEN Neg(Eval(t.operand)) ELSE Eval(t.operand))
      [] t.node = "BinOp" -> Apply(t.op, Eval(t.left), Eval(t.right))
      [] t.node = "Name" -> Exc("NameError")
      [] OTHER -> Exc("TypeError")

\* ast.walk(node): the node and all its descendants.
RECURSIVE walk(_)
walk(t) ==
    {t} \cup
    (CASE t.node = "BinOp" -> walk(t.left) \cup walk(t.right)
       [] t.node = "UnaryOp" -> walk(t.operand)
       [] t.node = "Call" -> walk(t.func)
       [] t.node = "Attribute" -> walk(t.value)
       [] OTHER -> {})

\* isinstance(subnode, allowed_nodes), the operator nodes included.
AllowedBinOps == {"Add", "Sub", "Mult", "Div", "Pow", "Mod", "FloorDiv"}
AllowedUnaryOps == {"UAdd", "USub"}
allowed_nodes(t) ==
    \/ t.node = "Constant"
    \/ t.node = "BinOp" /\ t.op \in AllowedBinOps
    \/ t.node = "UnaryOp" /\ t.op \in AllowedUnaryOps

\* isinstance(subnode.value, (int, float)): bool is a subclass of int.
IsIntOrFloat(t) == t.type \in {"int", "float", "bool"}

\* str(n) for n >= 0, and zero-padded to a width.
DigitSeq == <<"0", "1", "2", "3", "4", "5", "6", "7", "8", "9">>
RECURSIVE Digits(_)
Digits(n) ==
    IF n < 10 THEN <<DigitSeq[n + 1]>>
    ELSE Digits(n \div 10) \o <<DigitSeq[(n % 10) + 1]>>

RECURSIVE Padded(_, _)
Padded(n, width) ==
    IF width = 0 THEN <<>>
    ELSE Padded(n \div 10, width - 1) \o <<DigitSeq[(n % 10) + 1]>>

OpSymbol ==
    "Add" :> "+" @@ "Sub" :> "-" @@ "Mult" :> "*" @@ "Div" :> "/" @@
    "Pow" :> "**" @@ "Mod" :> "%" @@ "FloorDiv" :> "//" @@
    "UAdd" :> "+" @@ "USub" :> "-"

\* The source text of a tree, fully parenthesised and without blanks.
RECURSIVE Render(_)
Render(t) ==
    CASE t.node = "Constant" ->
            (CASE t.type = "int" -> Digits(t.m)
               [] t.type = "float" ->
                    Digits(t.m \div Pow10(t.e)) \o <<".">>
                        \o Padded(t.m % Pow10(t.e), t.e)
               [] t.type = "bool" -> Chars("True")
               [] OTHER -> Chars("'a'"))
      [] t.node = "BinOp" ->
            <<"(">> \o Render(t.left) \o Chars(OpSymbol[t.op])
                \o Render(t.right) \o <<")">>
      [] t.node = "UnaryOp" ->
            <<"(">> \o Chars(OpSymbol[t.op]) \o Render(t.operand) \o <<")">>
      [] t.node = "Name" -> Chars(t.id)
      [] t.node = "Call" -> Render(t.func) \o Chars("()")
      [] t.node = "Attribute" -> Render(t.value) \o <<".">> \o Chars(t.attr)
      [] OTHER -> Chars("()")

\* The expressions the evaluator is enumerated over.
IntLeaves == {IntLit(0), IntLit(2), IntLit(3)}
BigFloat == FloatLit(10000, 1)
NumLeaves == IntLeaves \cup {FloatLit(5, 1), BigFloat}
Exponents == IntLeaves \cup {UnaryOp("USub", l) : l \in IntLeaves}
Factors == {IntLit(2), BigFloat}
Products == {BinOp("Mult", a, b) : a, b \in Factors}

FlatTrees ==
    {BinOp(op, a, b) : op \in AllowedBinOps \ {"Pow"}, a, b \in NumLeaves}
        \cup {BinOp("Pow", a, x) : a \in NumLeaves, x \in Exponents}
        \cup {UnaryOp(op, a) : op \in AllowedUnaryOps, a \in NumLeaves}

NestedTrees ==
    {BinOp(op, a, BinOp(op2, b, c)) :
        op \in {"Div", "Mod"}, a \in {IntLit(3), BigFloat},
        op2 \in {"Sub", "Mult"}, b, c \in Factors}
        \cup {BinOp(op, p, q) :
                op \in {"Add", "Sub", "Mult", "Div"}, p, q \in Products}
        \cup {BinOp("Pow", p, x) : p \in Products, x \in Exponents}

ArithmeticTrees == NumLeaves \cup FlatTrees \cup NestedTrees

ForeignTrees ==
    { Name("a"), Call(Name("f")), Attribute(Name("a"), "b"), StrLit, BoolTrue,
      EmptyTuple,
      BinOp("Add", BoolTrue, IntLit(2)),
      BinOp("Add", Name("a"), IntLit(2)),
      BinOp("Mult", IntLit(2), Call(Name("f"))),
      BinOp("Sub", Attribute(Name("a"), "b"), IntLit(3)),
      BinOp("Add", StrLit, IntLit(2)),
      UnaryOp("USub", Name("a")) }

Trees == ArithmeticTrees \cup ForeignTrees

\* ast.parse(expr, mode="eval") of the standard library, as the inverse of
\* Render over the enumerated trees; any other text is a SyntaxError.
ast_parse(expr) ==
    IF \E t \in Trees : Render(t) = expr
      THEN CHOOSE t \in Trees : Render(t) = expr
      ELSE NoTree

\* _safe_eval.  evaluated tells whether eval() was reached.
_safe_eval(expr) ==
    LET node == ast_parse(expr) IN
    IF node = NoTree
      THEN [value |-> Exc("SyntaxError"), evaluated |-> FALSE]
    ELSE IF \E subnode \in walk(node) :
                \/ ~allowed_nodes(subnode)
                \/ subnode.node = "Constant" /\ ~IsIntOrFloat(subnode)
      THEN [value |-> Exc("ValueError"), evaluated |-> FALSE]
    ELSE [value |-> ToFloat(Eval(node)), evaluated |-> TRUE]

\* re.fullmatch(r"[0-9\.\+\-\*\/\(\)\s%*]+", candidate)
ArithmeticChars == DigitChars \cup {".", "+", "-", "*", "/", "(", ")", "%", " "}
IsArithmeticText(s) == s # <<>> /\ \A i \in 1..Len(s) : s[i] \in ArithmeticChars

\* candidate.replace("^", "**")
RECURSIVE ReplaceCaret(_)
ReplaceCaret(s) ==
    IF s = <<>> THEN <<>>
    ELSE (IF Head(s) = "^" THEN <<"*", "*">> ELSE <<Head(s)>>)
            \o ReplaceCaret(Tail(s))

\* s.strip(chars)
StripChars(s, chars) ==
    IF \A i \in 1..Len(s) : s[i] \in chars THEN <<>>
    ELSE LET first == CHOOSE i \in 1..Len(s) :
                          s[i] \notin chars /\ \A j \in 1..(i - 1) : s[j] \in chars
             last == CHOOSE i \in 1..Len(s) :
                          s[i] \notin chars /\ \A j \in (i + 1)..Len(s) : s[j] \in chars
         IN  SubSeq(s, first, last)

StartsWith(s, p) == Len(s) >= Len(p) /\ SubSeq(s, 1, Len(p)) = p

\* The command words of _solve_arithmetic, in the order they are tried.
CommandWords == <<Chars("calculate"), Chars("compute"), Chars("evaluate"), Chars("solve")>>

\* The text left after the first command word candidate starts with.
WithoutCommand(candidate) ==
    LET hits == {k \in 1..Len(CommandWords) :
                    StartsWith(Lower(candidate), CommandWords[k])}
    IN  IF hits = {} THEN candidate
        ELSE StripChars(SliceFrom(candidate, Len(CommandWords[SetMin(hits)])),
                        {" ", ":"})

\* The text handed to _safe_eval, or <<>> when the question is rejected.
Candidate(question) ==
    LET replaced == ReplaceCaret(Strip(question))
        candidate == IF IsArithmeticText(replaced) THEN replaced
                     ELSE WithoutCommand(replaced)
    IN  IF IsArithmeticText(candidate) THEN candidate ELSE <<>>

SignedDigits(n) == IF n < 0 THEN <<"-">> \o Digits(-n) ELSE Digits(n)

\* The first k digits of rem/d after the point (rem < d) as a number, and
\* what is left of rem after them.
RECURSIVE FractionDigits(_, _, _)
FractionDigits(rem, d, k) ==
    IF k = 0 THEN 0
    ELSE ((rem * 10) \div d) * Pow10(k - 1) + FractionDigits((rem * 10) % d, d, k - 1)

RECURSIVE FractionRest(_, _, _)
FractionRest(rem, d, k) ==
    IF k = 0 THEN rem ELSE FractionRest((rem * 10) % d, d, k - 1)

\* s.rstrip(chars)
RStrip(s, chars) ==
    IF \A i \in 1..Len(s) : s[i] \in chars THEN <<>>
    ELSE LET last == CHOOSE i \in 1..Len(s) :
                          s[i] \notin chars /\ \A j \in (i + 1)..Len(s) : s[j] \in chars
         IN  SubSeq(s, 1, last)

\* Decimals printed, the 6 of "{:.6f}".
FixedDecimals == 6

\* f"{value:.6f}".rstrip("0").rstrip("."): round half to even at the sixth
\* decimal, then drop trailing zeros and a trailing point.
FixedText(v) ==
    IF v.k = "nan" THEN Chars("nan")
    ELSE IF v.k = "inf" THEN (IF v.n < 0 THEN Chars("-inf") ELSE Chars("inf"))
    ELSE LET d == Abs(v.d)
             whole == Abs(v.n) \div d
             rem == Abs(v.n) % d
             cut == whole * Pow10(FixedDecimals) + FractionDigits(rem, d, FixedDecimals)
             rest == FractionRest(rem, d, FixedDecimals)
             up == 2 * rest > d \/ (2 * rest = d /\ cut % 2 = 1)
             scaled == IF up THEN cut + 1 ELSE cut
             text == (IF SignOf(v) < 0 THEN <<"-">> ELSE <<>>)
                        \o Digits(scaled \div Pow10(FixedDecimals)) \o <<".">>
                        \o Padded(scaled % Pow10(FixedDecimals), FixedDecimals)
         IN  RStrip(RStrip(text, {"0"}), {"."})

\* round(value) of a float: no integer is an infinity or a NaN.
RoundError(value) ==
    IF value.k = "inf" THEN "OverflowError"
    ELSE IF value.k = "nan" THEN "ValueError" ELSE "none"

\* str(int(round(value))) if abs(value - round(value)) < 1e-9 else the fixed
\* form.  A value n/d of the evaluation with d > 1 is further than 1e-9 from
\* every integer.
ValueText(value) ==
    IF Abs(value.d) = 1 THEN SignedDigits(value.n) ELSE FixedText(value)

\* What a solver step hands back: nothing (None), a text, or an exception.
Nothing == [kind |-> "None", text |-> <<>>, exc |-> "none", evaluated |-> FALSE,
            divided |-> FALSE]

\* _solve_arithmetic.  Only _safe_eval is inside the try.
_solve_arithmetic(question) ==
    LET candidate == Candidate(question)
        r == _safe_eval(candidate)
    IN  IF question = <<>> \/ candidate = <<>> THEN Nothing
        ELSE IF IsRaised(r.value) THEN [Nothing EXCEPT !.evaluated = r.evaluated]
        ELSE IF RoundError(r.value) # "none"
          THEN [Nothing EXCEPT !.kind = "raise", !.exc = RoundError(r.value),
                               !.evaluated = r.evaluated]
        ELSE [Nothing EXCEPT !.kind = "arithmetic", !.text = ValueText(r.value),
                             !.evaluated = r.evaluated]

\* A decimal m * 10^-e as float() reads it, or the ValueError of a text
\* without digits.
Dec(m, e) == [k |-> "dec", m |-> m, e |-> e]
NotDec == [k |-> "ValueError", m |-> 0, e |-> 0]

RECURSIVE DigitsValue(_)
DigitsValue(s) ==
    IF s = <<>> THEN 0
    ELSE 10 * DigitsValue(SubSeq(s, 1, Len(s) - 1))
            + (CHOOSE d \in 0..9 : DigitSeq[d + 1] = s[Len(s)])

\* \d*\.?\d* and, with digit_last, \d*\.?\d+ as a full match.
IsNumberText(s, digit_last) ==
    /\ \A i \in 1..Len(s) : s[i] \in DigitChars \/ s[i] = "."
    /\ Cardinality({i \in 1..Len(s) : s[i] = "."}) <= 1
    /\ digit_last => (s # <<>> /\ s[Len(s)] \in DigitChars)

\* [+-]?\s*number and, with sign_needed, [+-]\s*number as a full match.
IsSignedText(s, sign_needed, digit_last) ==
    LET signed == s # <<>> /\ s[1] \in {"+", "-"}
        rest == IF signed THEN Strip(Tail(s)) ELSE s
    IN  (sign_needed => signed) /\ IsNumberText(rest, digit_last)

\* float(cleaned) for an optionally signed decimal without blanks.
float_of(cleaned) ==
    LET signed == cleaned # <<>> /\ cleaned[1] \in {"+", "-"}
        body == IF signed THEN Tail(cleaned) ELSE cleaned
        digits == SelectSeq(body, LAMBDA c : c \in DigitChars)
        dots == {i \in 1..Len(body) : body[i] = "."}
        e == IF dots = {} THEN 0 ELSE Len(body) - SetMin(dots)
        m == DigitsValue(digits)
    IN  IF digits = <<>> \/ ~IsNumberText(body, FALSE) THEN NotDec
        ELSE Dec(IF signed /\ cleaned[1] = "-" THEN -m ELSE m, e)

\* value.replace(" ", "")
NoBlanks(s) == SelectSeq(s, LAMBDA c : c # " ")

\* _parse_coeff
_parse_coeff(value) ==
    LET cleaned == NoBlanks(value) IN
    IF cleaned \in {<<>>, <<"+">>} THEN Dec(1, 0)
    ELSE IF cleaned = <<"-">> THEN Dec(-1, 0)
    ELSE float_of(cleaned)

\* The groups (a_raw, b_raw, c_raw) of the pattern of _solve_linear_equation
\* matched against the question, case ignored; b_raw is <<>> when the group
\* did not take part.  The pattern admits one "x" and, after it, one "=".
LinearGroups(question) ==
    LET s == Lower(question)
        xs == {i \in 1..Len(s) : s[i] = "x"}
        es == {i \in 1..Len(s) : s[i] = "="}
        ix == SetMin(xs)
        ie == SetMin(es)
        a_raw == Strip(SubSeq(s, 1, ix - 1))
        b_raw == Strip(SubSeq(s, ix + 1, ie - 1))
        c_raw == Strip(SubSeq(s, ie + 1, Len(s)))
    IN  IF /\ Cardinality(xs) = 1 /\ Cardinality(es) = 1 /\ ix < ie
           /\ IsSignedText(a_raw, FALSE, FALSE)
           /\ b_raw = <<>> \/ IsSignedText(b_raw, TRUE, TRUE)
           /\ IsSignedText(c_raw, FALSE, TRUE)
          THEN [matched |-> TRUE, a_raw |-> a_raw, b_raw |-> b_raw, c_raw |-> c_raw]
          ELSE [matched |-> FALSE, a_raw |-> <<>>, b_raw |-> <<>>, c_raw |-> <<>>]

\* Decimal places of the tolerance 1e-12 of the zero test.
ToleranceDigits == 12

\* abs(a) < 1e-12 for a decimal a.
IsNearZero(a) ==
    \/ a.m = 0
    \/ a.e > ToleranceDigits /\ Abs(a.m) < Pow10(a.e - ToleranceDigits)

\* The float of a decimal.
DecFloat(a) == Float(a.m, Pow10(a.e))

\* The coefficients (a, b, c) float() reads from the groups.
Coefficients(g) ==
    [a |-> _parse_coeff(g.a_raw),
     b |-> float_of(NoBlanks(IF g.b_raw = <<>> THEN <<"0">> ELSE g.b_raw)),
     c |-> float_of(NoBlanks(g.c_raw))]

\* _solve_linear_equation
_solve_linear_equation(question) ==
    LET g == LinearGroups(question)
        k == Coefficients(g)
    IN  IF question = <<>> \/ ~g.matched THEN Nothing
        ELSE IF NotDec \in {k.a, k.b, k.c} THEN Nothing
        ELSE IF IsNearZero(k.a) THEN [Nothing EXCEPT !.kind = "no_single_solution"]
        ELSE [Nothing EXCEPT
                !.kind = "linear",
                !.text = FixedText(Div(Sub(DecFloat(k.c), DecFloat(k.b)), DecFloat(k.a))),
                !.divided = TRUE]

\* solver_chat.  note tells whether the reply opens with the sentence about
\* the image that cannot be read.
solver_chat(message, image_data_url) ==
    LET question == Strip(CollapseWS(message))
        arithmetic == _solve_arithmetic(question)
        linear == _solve_linear_equation(question)
        reply(r) == [kind |-> r.kind, note |-> image_data_url, text |-> r.text,
                     exc |-> r.exc, evaluated |-> r.evaluated,
                     divided |-> r.divided]
    IN  IF question = <<>> /\ image_data_url
          THEN [reply(Nothing) EXCEPT !.kind = "image_only", !.note = FALSE]
        ELSE IF arithmetic.kind # "None"
          THEN (IF arithmetic.kind = "raise"
                  THEN [reply(arithmetic) EXCEPT !.note = FALSE]
                  ELSE reply(arithmetic))
        ELSE IF linear.kind # "None"
          THEN [reply(linear) EXCEPT !.evaluated = arithmetic.evaluated]
        ELSE [reply(Nothing) EXCEPT !.kind = "framework",
                                    !.evaluated = arithmetic.evaluated]

\* The messages solver_chat is enumerated over: every enumerated expression
\* as written, powers also written with "^", sums also behind a command
\* word, equations from the coefficient texts below, and a few other texts.
CaretText(t) ==
    <<"(">> \o Render(t.left) \o <<"^">> \o Render(t.right) \o <<")">>

ExpressionMessages ==
    {Render(t) : t \in Trees}
        \cup {CaretText(t) : t \in {u \in FlatTrees : u.node = "BinOp" /\ u.op = "Pow"}}
        \cup {Chars(w) \o Render(t) :
                w \in {"calculate: ", "Solve ", "compute"},
                t \in {BinOp("Add", a, b) : a, b \in IntLeaves}}

ARaws == {"", "-", "2", "0", "0.5", ".", "0.0000000000001", "- 2", "+"}
BRaws == {"", "+3", "- 1", "+.5"}
CRaws == {"9", "-9", ".5", "3."}

EquationMessages ==
    {Chars(a) \o Chars(x) \o Chars(b) \o Chars("=") \o Chars(c) :
        a \in ARaws, x \in {"x", " X "}, b \in BRaws, c \in CRaws}

OtherMessages ==
    {Chars(""), Chars("  "), Chars("1 2"), Chars("explain recursion"),
     Chars("solve 2x+3=9"), Chars("2x+3=9x"), Chars("2+3=5")}

Messages == ExpressionMessages \cup EquationMessages \cup OtherMessages

SolverParked == [pc |-> "parked"]

\* One call of solver_chat, or one call of _safe_eval on its own.
SolverStart ==
    \/ \E m \in Messages, i \in BOOLEAN :
          slv = [pc |-> "call", fn |-> "solver_chat", message |-> m, image |-> i]
    \/ \E t \in Trees :
          slv = [pc |-> "call", fn |-> "_safe_eval", message |-> Render(t),
                 image |-> FALSE]

SolverChat ==
    /\ slv.pc = "call" /\ slv.fn = "solver_chat"
    /\ slv' = [pc |-> "done", fn |-> slv.fn, message |-> slv.message,
               image |-> slv.image,
               out |-> solver_chat(slv.message, slv.image)]

SafeEval ==
    /\ slv.pc = "call" /\ slv.fn = "_safe_eval"
    /\ slv' = [pc |-> "done", fn |-> slv.fn, message |-> slv.message,
               image |-> slv.image, out |-> _safe_eval(slv.message)]

(***************************************************************************)
(* Multi-pass summarisation of the two network adapters,                   *)
(* services/gemini_service.py and services/ollama_service.py.  Every       *)
(* request to the model goes through _generate_json; what the model        *)
(* answers is the environment's choice.                                    *)
(***************************************************************************)

Adapters == {"gemini", "ollama"}

\* What one request to the model can come back with: the text of a JSON
\* object, of another JSON value, a text extract_json_payload cannot parse,
\* or no text at all (the request failed or the answer was empty).
Replies == {"object", "array", "garbage", "error"}

\* _generate_json: the value handed back, or "raise".  _generate is outside
\* the try, and the retry's extract_json_payload is not guarded.
_generate_json(first, retry) ==
    IF first = "error" THEN "raise"
    ELSE IF first # "garbage" THEN first
    ELSE IF retry \in {"error", "garbage"} THEN "raise"
    ELSE retry

\* Most chunks split_into_chunks hands to the extraction stage.
MaxNoteChunks == 2

MultiPassParked == [pc |-> "parked"]

\* One call of _generate: the prompt it carries, whether the "Return JSON
\* only" line was added to it, and the temperature in tenths.
Request(prompt, strict, temperature) ==
    [prompt |-> prompt, strict |-> strict, temperature |-> temperature]

\* max(0.1, temperature - 0.1), in tenths.
RetryTemperature(temperature) == Max(1, temperature - 1)

\* The calls of _generate one _generate_json makes: the retry follows an
\* answer extract_json_payload could not parse, and nothing follows a
\* request that failed.
Sent(prompt, temperature, first) ==
    IF first = "garbage"
      THEN <<Request(prompt, FALSE, temperature),
             Request(prompt, TRUE, RetryTemperature(temperature))>>
      ELSE <<Request(prompt, FALSE, temperature)>>

\* The state after clean_transcript_text and split_into_chunks: total chunks,
\* none of them extracted yet.  calls lists the prompts sent so far, notes
\* the indexes of the chunks whose answer was kept, sent the calls of
\* _generate.  reduced, candidate and data name the stage whose answer the
\* variable of that name holds ("empty" for the dictionary without content),
\* retries the single-shot calls made by the handler of summarize, first the
\* answer to the first call of the last _generate_json and request its calls.
MultiPassStart ==
    \E a \in Adapters, n \in 0..MaxNoteChunks :
        mps = [pc |-> IF n = 0 THEN "single_shot" ELSE "extract",
               adapter |-> a, total |-> n, index |-> 1, notes |-> <<>>,
               calls |-> <<>>, last |-> "none", result |-> "pending",
               sent |-> <<>>, reduced |-> "none", candidate |-> "none",
               data |-> "none", retries |-> 0, first |-> "none",
               request |-> <<>>]

\* Where an exception leaves the protocol: GeminiService.summarize catches
\* what _multi_pass_summary raises, OllamaService.summarize has no handler.
Raise(adapter, pc) ==
    IF adapter = "gemini" /\ pc # "fallback" THEN "fallback" ELSE "done"

\* The extraction followed by the synthesis stage, the reduce stage left out.
AfterExtractionSkipsReduce(adapter, notes) ==
    IF adapter = "gemini" /\ notes = <<>> THEN "single_shot" ELSE "synthesis"

\* if not chunk_notes, tested by _multi_pass_summary only.
AfterExtraction(adapter, notes) ==
    IF adapter = "gemini" /\ notes = <<>> THEN "single_shot" ELSE "reduce"

\* One pass of the extraction loop: the chunk prompt, then the isinstance
\* test on what came back.
ExtractChunk ==
    /\ mps.pc = "extract"
    /\ \E first, retry \in Replies :
         LET data == _generate_json(first, retry)
             notes == IF data = "object" THEN Append(mps.notes, mps.index)
                      ELSE mps.notes
         IN  mps' = [mps EXCEPT
                       !.calls = Append(@, "chunk"),
                       !.sent = @ \o Sent("chunk", 2, first),
                       !.request = Sent("chunk", 2, first),
                       !.first = first,
                       !.last = IF first = "garbage" THEN retry ELSE first,
                       !.notes = notes,
                       !.result = IF data = "raise" /\ mps.adapter = "ollama"
                                    THEN "raised" ELSE @,
                       !.index = IF data = "raise" THEN @ ELSE @ + 1,
                       !.pc = IF data = "raise" THEN Raise(mps.adapter, mps.pc)
                              ELSE IF mps.index = mps.total
                                THEN AfterExtraction(mps.adapter, notes)
                              ELSE "extract"]

\* What a later stage leaves in its variable: the object the model answered
\* with, else what the stage before produced (the reduce stage has a
\* dictionary without content in its place).
Carried(pc, data, before) ==
    IF data = "object" THEN pc
    ELSE IF pc = "reduce" THEN "empty"
    ELSE before

\* A later stage: its prompt and temperature, and the stage that follows.
Stage(pc, prompt, temperature, next) ==
    /\ mps.pc = pc
    /\ \E first, retry \in Replies :
         LET data == _generate_json(first, retry) IN
         mps' = [mps EXCEPT
                   !.calls = Append(@, prompt),
                   !.sent = @ \o Sent(prompt, temperature, first),
                   !.request = Sent(prompt, temperature, first),
                   !.first = first,
                   !.last = IF first = "garbage" THEN retry ELSE first,
                   !.reduced = IF pc = "reduce" /\ data # "raise"
                                 THEN Carried(pc, data, "none") ELSE @,
                   !.candidate = IF pc = "synthesis" /\ data # "raise"
                                   THEN Carried(pc, data, mps.reduced) ELSE @,
                   !.data = IF pc = "validation" /\ data # "raise"
                              THEN Carried(pc, data, mps.candidate) ELSE @,
                   !.result = IF data # "raise" THEN (IF next = "done" THEN "returned" ELSE @)
                              ELSE IF Raise(mps.adapter, pc) = "done" THEN "raised"
                              ELSE @,
                   !.pc = IF data = "raise" THEN Raise(mps.adapter, pc) ELSE next]

Reduce == Stage("reduce", "reduce", 2, "synthesis")
Synthesize == Stage("synthesis", "synthesis", 2, "validation")
ValidateNotes == Stage("validation", "validation", 1, "done")

\* The single-shot summarize call on the whole cleaned transcript: before any
\* chunk when there is none, after the extraction when no note survived
\* (_multi_pass_summary), and in the handler of GeminiService.summarize.
\* OllamaService.summarize raises when the answer is not an object.
SingleShot ==
    /\ mps.pc \in {"single_shot", "fallback"}
    /\ \E first, retry \in Replies :
         LET data == _generate_json(first, retry)
             raised == data = "raise" \/ (mps.adapter = "ollama" /\ data # "object")
         IN  mps' = [mps EXCEPT
                       !.calls = Append(@, "summary"),
                       !.retries = IF mps.pc = "fallback" THEN @ + 1 ELSE @,
                       !.sent = @ \o Sent("summary", 2, first),
                       !.request = Sent("summary", 2, first),
                       !.first = first,
                       !.last = IF first = "garbage" THEN retry ELSE first,
                       !.data = IF raised THEN @
                                ELSE IF data = "object" THEN "summary" ELSE "empty",
                       !.result = IF ~raised THEN "returned"
                                  ELSE IF Raise(mps.adapter, mps.pc) = "done" THEN "raised"
                                  ELSE @,
                       !.pc = IF raised THEN Raise(mps.adapter, mps.pc) ELSE "done"]

(***************************************************************************)
(* Question generation of the network adapters, GeminiService and          *)
(* OllamaService generate_mcqs with llm_utils.normalize_mcq_item.  A JSON   *)
(* value is a record of its type and content.                              *)
(***************************************************************************)

JStr(s) == [type |-> "str", s |-> s, n |-> 0, xs |-> <<>>]
JInt(n) == [type |-> "int", s |-> <<>>, n |-> n, xs |-> <<>>]
JList(xs) == [type |-> "list", s |-> <<>>, n |-> 0, xs |-> xs]
JNull == [type |-> "null", s |-> <<>>, n |-> 0, xs |-> <<>>]
\* The value of a key the dictionary does not have.
Missing == [type |-> "missing", s |-> <<>>, n |-> 0, xs |-> <<>>]

\* A dictionary of one question, and the dictionary of a whole answer.
JItem(question, options, correct_index, explanation) ==
    [type |-> "dict", question |-> question, options |-> options,
     correct_index |-> correct_index, explanation |-> explanation]
JAnswer(mcqs) == [type |-> "dict", mcqs |-> mcqs]

\* dict.get(key, default) on the value found under the key.
Get(value, default) == IF value.type = "missing" THEN default ELSE value

\* str(value)
Str(value) ==
    CASE value.type = "str" -> value.s
      [] value.type = "int" ->
            IF value.n < 0 THEN <<"-">> \o Digits(-value.n) ELSE Digits(value.n)
      [] value.type = "null" -> Chars("None")

\* What a for loop over the value goes through; TypeError for a value that
\* is not iterable.
IsIterable(value) == value.type \in {"list", "str"}
Elements(value) ==
    IF value.type = "list" THEN value.xs
    ELSE [i \in 1..Len(value.s) |-> JStr(<<value.s[i]>>)]

\* str.upper() and str.isdigit()
UpperChar(c) ==
    IF \E u \in DOMAIN ToLower : ToLower[u] = c
      THEN CHOOSE u \in DOMAIN ToLower : ToLower[u] = c
      ELSE c
Upper(s) == [i \in 1..Len(s) |-> UpperChar(s[i])]
IsDigitText(s) == s # <<>> /\ \A i \in 1..Len(s) : s[i] \in DigitChars

OptionCount == 4
MaxCorrectIndex == 3
NetworkMcqCount == 5

fallback_pool ==
    <<Chars("Insufficient option generated"), Chars("None of the above"),
      Chars("Cannot be inferred"), Chars("Requires more context")>>

\* The letters of the answer options and the index each stands for.
LetterIndex == (<<"A">> :> 0) @@ (<<"B">> :> 1) @@ (<<"C">> :> 2) @@ (<<"D">> :> 3)

\* An MCQItem, and the exception normalize_mcq_item raises in its place.
MCQItem(question, options, correct_index, explanation) ==
    [raised |-> FALSE, question |-> question, options |-> options,
     correct_index |-> correct_index, explanation |-> explanation]
ItemRaised == [raised |-> TRUE, question |-> <<>>, options |-> <<>>,
               correct_index |-> 0, explanation |-> <<>>]

\* The stripped non-empty texts of the options, at most four of them.
CleanOptions(value) ==
    LET texts == [i \in 1..Len(Elements(value)) |-> Strip(Str(Elements(value)[i]))]
    IN  Prefix(SelectSeq(texts, LAMBDA t : t # <<>>), OptionCount)

\* while len(options) < 4: options.append(fallback_pool[len(options)])
PadOptions(options) ==
    [i \in 1..OptionCount |->
        IF i <= Len(options) THEN options[i] ELSE fallback_pool[i]]

\* raw_correct after the isinstance(raw_correct, str) branch.
RawCorrect(value) ==
    IF value.type # "str" THEN value
    ELSE LET text == Upper(Strip(value.s)) IN
         IF text \in DOMAIN LetterIndex THEN JInt(LetterIndex[text])
         ELSE IF IsDigitText(text) THEN JInt(DigitsValue(text))
         ELSE JInt(0)

\* The index without the upper clamp: max(0, int(raw_correct)).
ClampIndexBelowOnly(n) == Max(0, n)

\* max(0, min(int(raw_correct), 3))
ClampIndex(n) == Max(0, Min(n, MaxCorrectIndex))

\* str(item.get(key, "")).strip() or the default text
TextOr(value, default) ==
    LET text == Strip(Str(Get(value, JStr(<<>>)))) IN
    IF text = <<>> THEN default ELSE text

normalize_mcq_item(item) ==
    LET options == Get(item.options, JList(<<>>))
        raw_correct == RawCorrect(Get(item.correct_index, JInt(0)))
    IN  IF ~IsIterable(options) \/ raw_correct.type # "int" THEN ItemRaised
        ELSE MCQItem(TextOr(item.question, Chars("Question unavailable")),
                     PadOptions(CleanOptions(options)),
                     ClampIndex(raw_correct.n),
                     TextOr(item.explanation, Chars("No explanation provided.")))

\* What one call of _generate comes back with: a failed request, a text
\* extract_json_payload cannot parse, or the text of a JSON value.
ReplyError == [kind |-> "error", data |-> JNull]
ReplyGarbage == [kind |-> "garbage", data |-> JNull]
ReplyJson(data) == [kind |-> "json", data |-> data]

\* What generate_mcqs hands back: five items, or an exception.
McqRaised == [raised |-> TRUE, items |-> <<>>]
McqReturned(items) == [raised |-> FALSE, items |-> items]

\* The part of generate_mcqs after the JSON value was extracted.
McqsFromData(data) ==
    LET mcq_items == IF data.type = "dict" THEN Get(data.mcqs, JList(<<>>)) ELSE data
    IN  IF data.type \notin {"dict", "list"} THEN McqRaised
        ELSE IF mcq_items.type # "list" \/ mcq_items.xs = <<>> THEN McqRaised
        ELSE LET dicts == SelectSeq(mcq_items.xs, LAMBDA item : item.type = "dict")
                 normalized == [i \in 1..Len(dicts) |-> normalize_mcq_item(dicts[i])]
             IN  IF \E i \in 1..Len(normalized) : normalized[i].raised THEN McqRaised
                 ELSE IF Len(normalized) < NetworkMcqCount THEN McqRaised
                 ELSE McqReturned(Prefix(normalized, NetworkMcqCount))

\* generate_mcqs of either adapter on the answer to the first call and to
\* the retry.
network_generate_mcqs(first, retry) ==
    IF first.kind = "error" THEN McqRaised
    ELSE IF first.kind = "json" THEN McqsFromData(first.data)
    ELSE IF retry.kind # "json" THEN McqRaised
    ELSE McqsFromData(retry.data)

\* The option lists, answer indexes and questions the model answers with.
OptionTexts ==
    <<JStr(Chars("loss")), JStr(Chars(" rate ")), JStr(Chars(" ")),
      JStr(Chars("bias")), JInt(7), JStr(Chars("step")), JNull>>
OptionInputs ==
    {JList(SubSeq(OptionTexts, a, b)) : a \in 1..3, b \in 0..Len(OptionTexts)}
        \cup {JStr(Chars("ab")), JNull, Missing}
CorrectInputs ==
    <<JInt(0), JInt(-1), JStr(Chars("A")), JInt(3), JStr(Chars(" c ")), JInt(4),
      JStr(Chars("2")), JStr(Chars("7")), JStr(Chars("E")), JStr(Chars("-1")),
      JStr(<<>>), Missing, JInt(2), JStr(Chars("D")), JNull>>
QuestionInputs == <<JStr(Chars(" Why? ")), Missing, JStr(Chars("How?")), JStr(Chars(" "))>>

\* Most questions in one answer of the model.
MaxMcqItems == 6

\* A list of n questions with the same options, the answer indexes and the
\* questions taken in turn from position k on.
QuestionList(options, k, n) ==
    [i \in 1..n |->
        JItem(QuestionInputs[((k + i) % Len(QuestionInputs)) + 1], options,
              CorrectInputs[((k + i) % Len(CorrectInputs)) + 1],
              QuestionInputs[((k + i + 1) % Len(QuestionInputs)) + 1])]

QuestionLists ==
    {QuestionList(o, k, n) : o \in OptionInputs, k \in 1..Len(CorrectInputs),
                             n \in 0..MaxMcqItems}

\* The JSON values of the answers: a list of questions, bare or under the
\* key "mcqs", with or without an entry that is no dictionary, and values
\* of another shape.
McqPayloads ==
    {JList(xs) : xs \in QuestionLists}
        \cup {JAnswer(JList(xs)) : xs \in QuestionLists}
        \cup {JList(<<JStr(Chars("Q1"))>> \o xs) : xs \in QuestionLists}
        \cup {JAnswer(Missing), JAnswer(JStr(Chars("none"))), JInt(5), JStr(Chars("mcqs"))}

McqReplies == {ReplyError, ReplyGarbage} \cup {ReplyJson(p) : p \in McqPayloads}

\* generate_mcqs is called on an adapter.
NetworkMcqStart ==
    \E a \in Adapters : mcq = [pc |-> "call", adapter |-> a]

\* The whole call: the prompt at temperature 0.3, the retry at 0.1 when the
\* answer did not parse, then the checks on the value.
NetworkGenerateMcqs ==
    /\ mcq.pc = "call"
    /\ \E first \in McqReplies :
         \E retry \in IF first.kind = "garbage" THEN McqReplies ELSE {ReplyError} :
            mcq' = [pc |-> "done", adapter |-> mcq.adapter,
                    first |-> first,
                    last |-> IF first.kind = "garbage" THEN retry ELSE first,
                    request |-> IF first.kind = "garbage"
                                  THEN <<Request("mcq", FALSE, 3), Request("mcq", TRUE, 1)>>
                                  ELSE <<Request("mcq", FALSE, 3)>>,
                    out |-> network_generate_mcqs(first, retry)]

(***************************************************************************)
(* The /summarize and /chat handlers, api/routes.py, over the SessionStore. *)
(* The requests are the threads of the store model.  A handler is an       *)
(* async def without an await: the event loop runs it to its end before    *)
(* it starts another.  The store calls a handler makes one after the other *)
(* fall into one tick of the clock; time passes while the fallback chain   *)
(* runs and between requests.                                              *)
(***************************************************************************)

\* The text of a sequence of characters, as the store keeps it.
RECURSIVE StringOf(_)
StringOf(s) == IF s = <<>> THEN "" ELSE s[1] \o StringOf(Tail(s))

\* A StructuredSummary, summary.model_dump() and StructuredSummary(**cached).
StructuredSummary(overview) == [cls |-> "StructuredSummary", overview |-> overview]
model_dump(summary) == [overview |-> summary.overview]
FromCached(cached) == StructuredSummary(cached.overview)

\* The transcripts, summaries, messages and answers of the requests.  The
\* message and the answer of a request name it, so that the entries of two
\* requests can be told apart in chat_history.
RouteTranscripts == {"  Gradient   descent updates\nthe weights. ", "A loss function [Music] measures error."}
RouteSummaries == {StructuredSummary("S1"), StructuredSummary("S2")}
MessageOf(r) == "question of " \o r
AnswerTo(r) == "answer to " \o r

\* Most question and answer pairs the model lets a chat_history hold.
MaxChatTurns == 2

\* The chunking both handlers ask for.
RouteMaxChars == 1400
RouteOverlapChars == 120
RouteMaxChunks == 24
RouteChunks(transcript) ==
    LET chunks == split_into_chunks(Chars(transcript), RouteMaxChars,
                                    RouteOverlapChars, RouteMaxChunks)
    IN  [i \in 1..Len(chunks) |-> StringOf(chunks[i])]

\* Variant of the event loop that starts a handler while another is inside
\* one.
LoopFree_unguarded(r) == TRUE

\* The event loop can start or resume the handler of request r: no other
\* request is inside a handler.
LoopFree(r) == \A u \in Threads \ {r} : thr[u].pc = "idle"

\* The ids ensure(session_id) can return: the id given, or for None a
\* uuid4, an id no resident record has.
EnsuredIds(S, session_id, now) ==
    IF session_id = NoneId
      THEN {sid \in Ids : _cleanup_expired_locked(S, now)[sid] = Absent}
      ELSE {session_id}

\* A set_* or append_chat as one call: its ensure, then its assignment.
store_set(S, op, sid, arg, now) ==
    write_body(ensure_body(S, sid, now), op, sid, arg, now)

\* Variant of the store calls of /summarize that leaves the chunks of the
\* session as they were.
summarize_store_keeps_chunks(S, sid, cleaned, summary, now) ==
    LET ensured == ensure_body(S, sid, now)
        with_transcript == store_set(ensured, "set_transcript", sid, cleaned, now)
    IN  store_set(with_transcript, "set_summary", sid, model_dump(summary), now)

\* Lines 207-213: ensure, set_transcript, set_summary, set_retrieval_chunks.
summarize_store(S, sid, cleaned, summary, now) ==
    LET ensured == ensure_body(S, sid, now)
        with_transcript == store_set(ensured, "set_transcript", sid, cleaned, now)
        with_summary == store_set(with_transcript, "set_summary", sid,
                                  model_dump(summary), now)
    IN  store_set(with_summary, "set_retrieval_chunks", sid, RouteChunks(cleaned), now)

\* What a handler returns or raises.
Response(op, r, sid) == [op |-> op, by |-> r, val |-> sid, err |-> "none", expired |-> {}]
HTTPError(op, r) == [op |-> op, by |-> r, val |-> None, err |-> "HTTPException", expired |-> {}]

\* /summarize is called: line 192, then the fallback chain starts.
SummarizeBegin(r, payload) ==
    /\ thr[r].pc = "idle"
    /\ LoopFree(r)
    /\ thr' = [thr EXCEPT ![r] =
                  [pc |-> "summarize_chain", session_id |-> payload.session_id,
                   transcript |-> payload.transcript,
                   cleaned |-> StringOf(clean_transcript_text(Chars(payload.transcript)))]]
    /\ ret' = NoRet
    /\ UNCHANGED <<sessions, clock, lock>>

\* _run_with_fallback_chain raises, and the handler with it, or returns a
\* summary, and the handler makes its store calls (lines 194-215).
SummarizeChain(r) ==
    /\ thr[r].pc = "summarize_chain"
    /\ LoopFree(r)
    /\ \/ /\ thr' = [thr EXCEPT ![r] = Idle]
          /\ ret' = HTTPError("summarize", r)
          /\ UNCHANGED sessions
       \/ \E summary \in RouteSummaries :
          \E sid \in EnsuredIds(sessions, thr[r].session_id, clock) :
             /\ sessions' = summarize_store(sessions, sid, thr[r].cleaned, summary, clock)
             /\ thr' = [thr EXCEPT ![r] = Idle]
             /\ ret' = [Response("summarize", r, sid) EXCEPT
                          !.expired = expired_keys(sessions, clock)]
                            @@ [summary |-> summary]
    /\ UNCHANGED <<clock, lock>>

\* The summary /chat works with after lines 222-226, None when there is
\* none.
ChatSummary(given, cached) ==
    IF given # None THEN given
    ELSE IF cached # None THEN FromCached(cached)
    ELSE None

\* The store after lines 234-239: the chunks are read, and built from the
\* transcript and stored when the session has none.
ChunksEnsured(S, sid, now) ==
    LET read == get_body(S, sid, now)
        built == RouteChunks(read[sid].transcript)
    IN  IF read[sid].retrieval_chunks # <<>> \/ built = <<>> THEN read
        ELSE store_set(read, "set_retrieval_chunks", sid, built, now)

\* /chat is called: lines 220-241, up to the fallback chain.  Without a
\* summary the handler raises 400 after its ensure.
ChatBegin(r, payload) ==
    /\ thr[r].pc = "idle"
    /\ LoopFree(r)
    /\ \E sid \in EnsuredIds(sessions, payload.session_id, clock) :
         LET ensured == ensure_body(sessions, sid, clock)
             looked == IF payload.summary = None
                         THEN get_body(ensured, sid, clock) ELSE ensured
             summary == ChatSummary(payload.summary, looked[sid].summary)
         IN  /\ Len(ensured[sid].chat_history) < 2 * MaxChatTurns
             /\ IF summary = None
                  THEN /\ sessions' = looked
                       /\ thr' = [thr EXCEPT ![r] = Idle]
                       /\ ret' = HTTPError("chat", r)
                  ELSE /\ sessions' = ChunksEnsured(looked, sid, clock)
                       /\ thr' = [thr EXCEPT ![r] =
                                     [pc |-> "chat_chain", sid |-> sid,
                                      summary |-> summary, message |-> payload.message]]
                       /\ ret' = NoRet
    /\ UNCHANGED <<clock, lock>>

\* _run_with_fallback_chain raises, and the handler with it, or returns the
\* answer (lines 243-269).
ChatChain(r) ==
    /\ thr[r].pc = "chat_chain"
    /\ LoopFree(r)
    /\ \/ /\ thr' = [thr EXCEPT ![r] = Idle]
          /\ ret' = HTTPError("chat", r)
       \/ /\ thr' = [thr EXCEPT ![r] = [@ EXCEPT !.pc = "set_summary"] @@ [answer |-> AnswerTo(r)]]
          /\ ret' = NoRet
    /\ UNCHANGED <<sessions, clock, lock>>

\* Lines 271, 272 and 273, one store call each.
ChatSetSummary(r) ==
    /\ thr[r].pc = "set_summary"
    /\ LoopFree(r)
    /\ sessions' = store_set(sessions, "set_summary", thr[r].sid,
                             model_dump(thr[r].summary), clock)
    /\ thr' = [thr EXCEPT ![r].pc = "append_user"]
    /\ ret' = NoRet
    /\ UNCHANGED <<clock, lock>>

ChatAppendUser(r) ==
    /\ thr[r].pc = "append_user"
    /\ LoopFree(r)
    /\ sessions' = store_set(sessions, "append_chat", thr[r].sid,
                             [role |-> "user", content |-> thr[r].message], clock)
    /\ thr' = [thr EXCEPT ![r].pc = "append_assistant"]
    /\ ret' = NoRet
    /\ UNCHANGED <<clock, lock>>

ChatAppendAssistant(r) ==
    /\ thr[r].pc = "append_assistant"
    /\ LoopFree(r)
    /\ sessions' = store_set(sessions, "append_chat", thr[r].sid,
                             [role |-> "assistant", content |-> thr[r].answer], clock)
    /\ thr' = [thr EXCEPT ![r] = Idle]
    /\ ret' = Response("chat", r, thr[r].sid)
    /\ UNCHANGED <<clock, lock>>

\* Time passes between requests and while a fallback chain runs.
RouteTick ==
    /\ \A r \in Threads : thr[r].pc \in {"idle", "summarize_chain", "chat_chain"}
    /\ Tick

(***************************************************************************)
(* Specifications                                                          *)
(***************************************************************************)

Parked ==
    /\ chk = ChunkParked /\ sel = SelParked /\ val = ValParked /\ mcq = McqParked
    /\ slv = SolverParked /\ mps = MultiPassParked

InitChain == ChainStart /\ StoreStart /\ Parked

NextChain ==
    \/ CallGemini /\ UNCHANGED <<storeVars, chk, sel, val, mcq, slv, mps>>
    \/ CallOllama /\ UNCHANGED <<storeVars, chk, sel, val, mcq, slv, mps>>
    \/ CallLocal /\ UNCHANGED <<storeVars, chk, sel, val, mcq, slv, mps>>

SpecChain == InitChain /\ [][NextChain]_vars

InitStore == StoreStart /\ ChainStart /\ Parked

NextStore ==
    \/ \E t \in Threads, op \in Ops, id \in Ids \cup {NoneId} :
            \E arg \in ArgsOf(op) : Begin(t, op, id, arg) /\ UNCHANGED <<chainVars, chk, sel, val, mcq, slv, mps>>
    \/ \E t \in Threads : EnsureStep(t) /\ UNCHANGED <<chainVars, chk, sel, val, mcq, slv, mps>>
    \/ \E t \in Threads : WriteStep(t) /\ UNCHANGED <<chainVars, chk, sel, val, mcq, slv, mps>>
    \/ \E t \in Threads : GetStep(t) /\ UNCHANGED <<chainVars, chk, sel, val, mcq, slv, mps>>
    \/ Tick /\ UNCHANGED <<chainVars, chk, sel, val, mcq, slv, mps>>

SpecStore == InitStore /\ [][NextStore]_vars

InitChunk ==
    ChunkStart /\ ChainStart /\ StoreStart /\ sel = SelParked /\ val = ValParked
        /\ mcq = McqParked /\ slv = SolverParked /\ mps = MultiPassParked

NextChunk == SplitIntoChunks /\ UNCHANGED <<chainVars, storeVars, sel, val, mcq, slv, mps>>

SpecChunk == InitChunk /\ [][NextChunk]_vars

InitSelect ==
    SelectStart /\ ChainStart /\ StoreStart /\ chk = ChunkParked /\ val = ValParked
        /\ mcq = McqParked /\ slv = SolverParked /\ mps = MultiPassParked

NextSelect == SelectTopChunks /\ UNCHANGED <<chainVars, storeVars, chk, val, mcq, slv, mps>>

SpecSelect == InitSelect /\ [][NextSelect]_vars

InitValidate ==
    ValidateStart /\ ChainStart /\ StoreStart /\ chk = ChunkParked /\ sel = SelParked
        /\ mcq = McqParked /\ slv = SolverParked /\ mps = MultiPassParked

NextValidate ==
    \/ Validate /\ UNCHANGED <<chainVars, storeVars, chk, sel, mcq, slv, mps>>
    \/ LoopIter /\ UNCHANGED <<chainVars, storeVars, chk, sel, mcq, slv, mps>>

SpecValidate == InitValidate /\ [][NextValidate]_vars

InitMcq ==
    McqStart /\ ChainStart /\ StoreStart /\ chk = ChunkParked /\ sel = SelParked
        /\ val = ValParked /\ slv = SolverParked /\ mps = MultiPassParked

NextMcq == GenerateMcqs /\ UNCHANGED <<chainVars, storeVars, chk, sel, val, slv, mps>>

SpecMcq == InitMcq /\ [][NextMcq]_vars

InitSolver ==
    SolverStart /\ ChainStart /\ StoreStart /\ chk = ChunkParked /\ sel = SelParked
        /\ val = ValParked /\ mcq = McqParked /\ mps = MultiPassParked

NextSolver ==
    \/ SolverChat /\ UNCHANGED <<chainVars, storeVars, chk, sel, val, mcq, mps>>
    \/ SafeEval /\ UNCHANGED <<chainVars, storeVars, chk, sel, val, mcq, mps>>

SpecSolver == InitSolver /\ [][NextSolver]_vars

InitMultiPass ==
    MultiPassStart /\ ChainStart /\ StoreStart /\ chk = ChunkParked /\ sel = SelParked
        /\ val = ValParked /\ mcq = McqParked /\ slv = SolverParked

NextMultiPass ==
    \/ ExtractChunk /\ UNCHANGED <<chainVars, storeVars, chk, sel, val, mcq, slv>>
    \/ Reduce /\ UNCHANGED <<chainVars, storeVars, chk, sel, val, mcq, slv>>
    \/ Synthesize /\ UNCHANGED <<chainVars, storeVars, chk, sel, val, mcq, slv>>
    \/ ValidateNotes /\ UNCHANGED <<chainVars, storeVars, chk, sel, val, mcq, slv>>
    \/ SingleShot /\ UNCHANGED <<chainVars, storeVars, chk, sel, val, mcq, slv>>

SpecMultiPass == InitMultiPass /\ [][NextMultiPass]_vars

\* The JSON requests of the network adapters: a summarize or a generate_mcqs.
InitNetwork ==
    /\ \/ MultiPassStart /\ mcq = McqParked
       \/ NetworkMcqStart /\ mps = MultiPassParked
    /\ ChainStart /\ StoreStart /\ chk = ChunkParked /\ sel = SelParked
    /\ val = ValParked /\ slv = SolverParked

NextNetwork ==
    \/ ExtractChunk /\ UNCHANGED <<chainVars, storeVars, chk, sel, val, mcq, slv>>
    \/ Reduce /\ UNCHANGED <<chainVars, storeVars, chk, sel, val, mcq, slv>>
    \/ Synthesize /\ UNCHANGED <<chainVars, storeVars, chk, sel, val, mcq, slv>>
    \/ ValidateNotes /\ UNCHANGED <<chainVars, storeVars, chk, sel, val, mcq, slv>>
    \/ SingleShot /\ UNCHANGED <<chainVars, storeVars, chk, sel, val, mcq, slv>>
    \/ NetworkGenerateMcqs /\ UNCHANGED <<chainVars, storeVars, chk, sel, val, slv, mps>>

SpecNetwork == InitNetwork /\ [][NextNetwork]_vars

\* The handlers over the store.
InitRoutes == StoreStart /\ ChainStart /\ Parked

NextRoutes ==
    \/ \E r \in Threads, t \in RouteTranscripts, id \in Ids \cup {NoneId} :
          SummarizeBegin(r, [transcript |-> t, session_id |-> id])
              /\ UNCHANGED <<chainVars, chk, sel, val, mcq, slv, mps>>
    \/ \E r \in Threads : SummarizeChain(r) /\ UNCHANGED <<chainVars, chk, sel, val, mcq, slv, mps>>
    \/ \E r \in Threads, id \in Ids \cup {NoneId}, given \in RouteSummaries \cup {None} :
          ChatBegin(r, [message |-> MessageOf(r), session_id |-> id, summary |-> given])
              /\ UNCHANGED <<chainVars, chk, sel, val, mcq, slv, mps>>
    \/ \E r \in Threads : ChatChain(r) /\ UNCHANGED <<chainVars, chk, sel, val, mcq, slv, mps>>
    \/ \E r \in Threads : ChatSetSummary(r) /\ UNCHANGED <<chainVars, chk, sel, val, mcq, slv, mps>>
    \/ \E r \in Threads : ChatAppendUser(r) /\ UNCHANGED <<chainVars, chk, sel, val, mcq, slv, mps>>
    \/ \E r \in Threads : ChatAppendAssistant(r) /\ UNCHANGED <<chainVars, chk, sel, val, mcq, slv, mps>>
    \/ RouteTick /\ UNCHANGED <<chainVars, chk, sel, val, mcq, slv, mps>>

SpecRoutes == InitRoutes /\ [][NextRoutes]_vars


(***************************************************************************)
(* Properties of the fallback orchestrator                                 *)
(***************************************************************************)

ChainDone == chain_pc \in {"returned", "raised"}

Raised(t) == outcome[t].kind \in {"http", "error"}

Times(t) == Cardinality({i \in 1..Len(invoked) : invoked[i] = t})

\* The recoverable class as the claims state it.
RecoverableStatuses == {401, 403, 429, 500, 502, 503, 504}

PrimaryRecoverableFailure ==
    \/ outcome["gemini"].kind = "error"
    \/ /\ outcome["gemini"].kind = "http"
       /\ outcome["gemini"].status \in RecoverableStatuses

PrimaryClientError ==
    /\ outcome["gemini"].kind = "http"
    /\ outcome["gemini"].status \notin RecoverableStatuses

\* C1: when the primary raises a recoverable HTTP error or a non-HTTP
\* exception and the secondary then raises anything, the finished chain has
\* invoked the tertiary exactly once and what the tertiary returned is what
\* the chain returned.
C1_TertiaryIsFinalResult ==
    (ChainDone /\ PrimaryRecoverableFailure /\ Raised("ollama")) =>
        /\ Times("local") = 1
        /\ outcome["local"].kind = "return" =>
              chain_result = [kind |-> "return", val |-> outcome["local"].val,
                              from |-> "local"]

C1_Witness ==
    /\ chain_pc = "returned"
    /\ outcome["gemini"].kind = "http"
    /\ outcome["gemini"].status = 429
    /\ outcome["ollama"].kind = "http"
    /\ chain_result = [kind |-> "return", val |-> "v2", from |-> "local"]

\* C2: a non-recoverable HTTPException of the primary is re-raised as is and
\* at once: the chain ends raising that very error and neither the secondary
\* nor the tertiary is ever invoked.
C2_ClientErrorPropagates ==
    PrimaryClientError =>
        /\ chain_pc = "raised"
        /\ chain_result = [kind |-> "raise", exc |-> outcome["gemini"],
                           from |-> "gemini"]
        /\ invoked = <<"gemini">>
        /\ outcome["ollama"] = NoOutcome
        /\ outcome["local"] = NoOutcome

C2_Witness ==
    /\ chain_pc = "raised"
    /\ outcome["gemini"] = [kind |-> "http", status |-> 400]
    /\ invoked = <<"gemini">>

\* C3: tiers are attempted in the order cloud, local-network, offline, each
\* at most once, a tier only after every earlier tier raised; the chain
\* returns the result of the first tier that returns and invokes no tier
\* after a success.
C3_TierOrder ==
    /\ Len(invoked) <= 3
    /\ \A i \in 1..Len(invoked) :
          /\ invoked[i] = Tiers[i]
          /\ \A j \in 1..(i - 1) : Raised(Tiers[j])
    /\ \A i \in 1..Len(invoked) :
          outcome[Tiers[i]].kind = "return" =>
              /\ Len(invoked) = i
              /\ chain_pc = "returned"
              /\ chain_result = [kind |-> "return", val |-> outcome[Tiers[i]].val,
                                 from |-> Tiers[i]]
    /\ chain_pc = "returned" => outcome[chain_result.from].kind = "return"

C3_Witness ==
    /\ chain_pc = "returned"
    /\ invoked = <<"gemini", "ollama">>
    /\ Raised("gemini")
    /\ chain_result.from = "ollama"

(***************************************************************************)
(* Properties of the SessionStore                                          *)
(***************************************************************************)

\* The record has idled beyond the TTL at time now.
IdledOut(r, now) == r # Absent /\ now - r.updated_at > TTL

\* The store with id never present.
Without(S, id) == [S EXCEPT ![id] = Absent]

\* What a getter gives for an id the store does not hold.
AbsentResult(op) == IF op \in {"get", "get_summary"} THEN None ELSE <<>>

\* Thread t completes get() (or a getter built on it) in this step.
GetReturns(t) == thr[t].pc = "get" /\ thr'[t].pc = "idle"

\* Thread t completes a direct ensure(id) in this step.
EnsureReturns(t) ==
    thr[t].pc = "ensure" /\ thr'[t].pc = "idle" /\ thr[t].id \in Ids

\* Thread t completes a set_* or append_chat in this step.
WriteReturns(t) == thr[t].pc = "write" /\ thr'[t].pc = "idle"

\* C4: get(id) never returns a record last updated more than TTL before the
\* call: a record idled beyond the TTL is gone after the call and the call
\* returns None, with no delete ever issued; a record that is returned was
\* updated at most TTL before the call.
C4_GetHidesExpired ==
    [][\A t \in Threads :
        (GetReturns(t) /\ thr[t].op = "get") =>
            LET prev == sessions[thr[t].id] IN
            /\ IdledOut(prev, clock) =>
                  (ret'.val = None /\ sessions'[thr[t].id] = Absent)
            /\ ret'.val # None =>
                  (prev # Absent /\ clock - prev.updated_at <= TTL)]_vars

C4_Witness ==
    /\ ret.op = "get"
    /\ ret.val = None
    /\ "s1" \in ret.expired
    /\ sessions["s1"] = Absent

\* C5: every store operation applied to an id whose record idled beyond the
\* TTL returns the same value and leaves the same record as the operation
\* applied to a store that never held the id; nothing of the expired record
\* survives.
C5_ExpiredIsAbsent ==
    [][\A t \in Threads :
        /\ (GetReturns(t) /\ IdledOut(sessions[thr[t].id], clock)) =>
              LET F == get_body(Without(sessions, thr[t].id), thr[t].id, clock) IN
              /\ sessions'[thr[t].id] = F[thr[t].id]
              /\ ret'.val = get_result(F, thr[t].op, thr[t].id)
              /\ ret'.val = AbsentResult(thr[t].op)
        /\ (EnsureReturns(t) /\ IdledOut(sessions[thr[t].id], clock)) =>
              LET F == ensure_body(Without(sessions, thr[t].id), thr[t].id, clock) IN
              /\ sessions'[thr[t].id] = F[thr[t].id]
              /\ sessions'[thr[t].id] = NewSession(clock)
              /\ ret'.val = thr[t].id
        /\ (WriteReturns(t) /\ thr[t].id \in thr[t].expired) =>
              LET E == ensure_body([i \in Ids |-> Absent], thr[t].id, thr[t].at)
                  F == write_body(E, thr[t].op, thr[t].id, thr[t].arg, clock)
              IN  /\ ret'.err = "none"
                  /\ ret'.val = None
                  /\ sessions'[thr[t].id] = F[thr[t].id]]_vars

C5_Witness ==
    /\ ret.op = "set_summary"
    /\ ret.err = "none"
    /\ "s1" \in ret.expired
    /\ sessions["s1"].summary = [overview |-> "S1"]
    /\ sessions["s1"].transcript = ""
    /\ sessions["s1"].chat_history = <<>>

\* C6: every store operation runs as one critical section of the single
\* lock: no two threads are inside an operation at once, the thread inside
\* holds the lock, and a set_* / append_chat finds at its write exactly the
\* record its own ensure left, so it never raises KeyError.
C6_OperationsAreAtomic ==
    /\ \A t \in Threads, u \in Threads :
          t # u => ~(thr[t].pc # "idle" /\ thr[u].pc # "idle")
    /\ \A t \in Threads : thr[t].pc # "idle" => lock = t
    /\ \A t \in Threads :
          thr[t].pc = "write" => sessions[thr[t].id] = thr[t].seen
    /\ ret.op # "none" => ret.err = "none"

C6_Witness ==
    \E t \in Threads, u \in Threads :
        /\ t # u
        /\ thr[t].pc = "write"
        /\ thr[u].pc = "idle"
        /\ clock - thr[t].at > TTL
        /\ sessions[thr[t].id] = thr[t].seen

\* The record of id is swept in this step: gone, or replaced by a new one.
Evicted(id) ==
    /\ sessions[id] # Absent
    /\ \/ sessions'[id] = Absent
       \/ sessions'[id].created_at # sessions[id].created_at

\* The record as an access at time now leaves it.
Touched(r, now) == [r EXCEPT !.updated_at = now]

\* C28: the idle time of a record is measured from its last access of any
\* kind: every successful get (and getter built on it) and every ensure of
\* an existing id sets the record's update time to the time of the call,
\* no step moves the update time back, and a record is evicted only when
\* the time since its update exceeds the TTL.  So a record read or ensured
\* at intervals of at most the TTL is never evicted, however long ago it
\* was created or last written.
C28_AccessResetsIdleTime ==
    [][/\ \A t \in Threads :
             (GetReturns(t) /\ sessions'[thr[t].id] # Absent) =>
                 sessions'[thr[t].id] = Touched(sessions[thr[t].id], clock)
       /\ \A t \in Threads :
             (/\ EnsureReturns(t)
              /\ sessions[thr[t].id] # Absent
              /\ clock - sessions[thr[t].id].updated_at <= TTL) =>
                 sessions'[thr[t].id] = Touched(sessions[thr[t].id], clock)
       /\ \A id \in Ids :
             /\ Evicted(id) => clock - sessions[id].updated_at > TTL
             /\ (sessions[id] # Absent /\ sessions'[id] # Absent) =>
                   sessions'[id].updated_at >= sessions[id].updated_at]_vars

\* A record created more than the TTL ago is still there, and handed back by
\* a getter that has just reset its update time.
C28_Witness ==
    /\ ret.op \in GetOps
    /\ ret.expired = {}
    /\ sessions["s1"] # Absent
    /\ clock - sessions["s1"].created_at > TTL
    /\ sessions["s1"].updated_at = clock

(***************************************************************************)
(* Properties of the chunker                                               *)
(***************************************************************************)

\* The text has a character that is not whitespace.
HasInk(s) == \E i \in 1..Len(s) : ~IsSpace(s[i])

\* C10: for every text, max_chars >= 1, overlap_chars >= 0 and
\* max_chunks >= 1, no returned chunk is empty or whitespace-only and at
\* most max_chunks chunks are returned.
C10_ChunksNonEmptyAndCapped ==
    chk.pc = "done" =>
        /\ Len(chk.out) <= chk.max_chunks
        /\ \A i \in 1..Len(chk.out) : chk.out[i] # <<>> /\ HasInk(chk.out[i])

\* A text longer than max_chars with max_chunks = 1: the hard slice fills
\* the cap and the rest of the text is not emitted.
C10_Witness ==
    /\ chk.pc = "done"
    /\ chk.max_chunks = 1
    /\ Len(clean_transcript_text(chk.text)) > chk.max_chars
    /\ Len(chk.out) = 1

\* The text without its whitespace.
NoSpace(s) == SelectSeq(s, LAMBDA c : ~IsSpace(c))

\* The lengths an overlap between two consecutive chunks can have: at most
\* overlap_chars leading characters of the later chunk that end the earlier.
OverlapLengths(prev, next, overlap_chars) ==
    {k \in 0..Min(overlap_chars, Min(Len(prev), Len(next))) :
        Prefix(next, k) = SliceFrom(prev, Len(prev) - k)}

\* The texts obtained by concatenating the first chunk and every later
\* chunk without an overlap with its predecessor.
RECURSIVE Rebuilds(_, _)
Rebuilds(chunks, overlap_chars) ==
    IF chunks = <<>> THEN {<<>>}
    ELSE IF Len(chunks) = 1 THEN {chunks[1]}
    ELSE LET n == Len(chunks) IN
         {r \o SliceFrom(chunks[n], k) :
             r \in Rebuilds(SubSeq(chunks, 1, n - 1), overlap_chars),
             k \in OverlapLengths(chunks[n - 1], chunks[n], overlap_chars)}

\* C11 as stated: the first chunk followed by the non-overlap portion of
\* every later chunk is the normalized source text, nothing lost or
\* reordered.
C11_RebuildsSource ==
    chk.pc = "done" =>
        clean_transcript_text(chk.text) \in Rebuilds(chk.out, chk.overlap_chars)

\* C11 amended: when fewer than max_chunks chunks were returned and the
\* overlap is no longer than a chunk, the first chunk followed by the
\* non-overlap portion of every later chunk is the normalized source text
\* up to the whitespace stripped where the text was cut.
C11_RebuildsSourceUnderCap ==
    (/\ chk.pc = "done"
     /\ Len(chk.out) < chk.max_chunks
     /\ chk.overlap_chars <= chk.max_chars) =>
        NoSpace(clean_transcript_text(chk.text))
            \in {NoSpace(r) : r \in Rebuilds(chk.out, chk.overlap_chars)}

C11_Witness ==
    /\ chk.pc = "done"
    /\ Len(chk.out) = 2
    /\ chk.max_chunks = 3
    /\ chk.overlap_chars = 2
    /\ chk.overlap_chars <= chk.max_chars
    /\ 2 \in OverlapLengths(chk.out[1], chk.out[2], chk.overlap_chars)
    /\ Len(clean_transcript_text(chk.text)) > chk.max_chars

\* C12: every returned chunk holds at most max_chars characters, also when
\* a paragraph longer than max_chars was hard-sliced or the buffer was
\* reseeded with the overlap.
C12_ChunksBounded ==
    chk.pc = "done" =>
        \A i \in 1..Len(chk.out) : Len(chk.out[i]) <= chk.max_chars

(***************************************************************************)
(* Properties of the retriever                                             *)
(***************************************************************************)

\* C9: for every query, chunk list and top_k >= 0 the result has at most
\* top_k chunks, each of them an element of the input list, and a query
\* with no token left after stopword removal gets the first
\* min(top_k, len(chunks)) chunks in their original order.
C9_SelectTopBounded ==
    sel.pc = "done" =>
        /\ Len(sel.out) <= sel.top_k
        /\ \A i \in 1..Len(sel.out) :
              \E j \in 1..Len(sel.chunks) : sel.out[i] = sel.chunks[j]
        /\ ContentTokens(sel.query) = <<>> =>
              /\ Len(sel.out) = Min(sel.top_k, Len(sel.chunks))
              /\ \A i \in 1..Len(sel.out) : sel.out[i] = sel.chunks[i]

\* A ranked answer: the query has tokens, more chunks score than top_k
\* admits, and the cut ranking is not the head of the input list.
C9_Witness ==
    /\ sel.pc = "done"
    /\ ContentTokens(sel.query) # <<>>
    /\ Len(sel.chunks) = 3
    /\ sel.top_k = 2
    /\ Len(sel.out) = 2
    /\ sel.out # SubSeq(sel.chunks, 1, 2)

(***************************************************************************)
(* Properties of summary validation                                        *)
(***************************************************************************)

ListFields ==
    {"key_definitions", "core_concepts", "important_examples", "exam_revision_points"}

\* The items of one list are pairwise different when compared in lower case.
NoCaseDuplicates(items) ==
    \A i, j \in 1..Len(items) : i # j => Lower(items[i]) # Lower(items[j])

\* C7: validate_structured_summary terminates on every candidate summary and
\* source text, and what it returns has exactly 3 overview paragraphs and
\* between 4 and 8 items in each of the four bulleted lists.  Every pass of
\* the loop runs the same generator on the same arguments: a pass that
\* appends nothing leaves the call where it was and is repeated for ever,
\* and a pass that appends brings the overview nearer to its three
\* paragraphs.  So the call terminates exactly when it is out of the loop
\* after at most three passes.
C7_TerminatesWithShape ==
    /\ val.pc = "loop" => val.iters < 3
    /\ val.pc = "done" =>
           /\ Len(val.validated.overview_paragraphs) = 3
           /\ \A f \in ListFields :
                 /\ Len(val.validated[f]) >= MinItems
                 /\ Len(val.validated[f]) <= MaxItems

\* C8: no field of the validated summary, the overview included, holds two
\* items that are equal when compared case-insensitively, also after items
\* were truncated and filler items appended.
C8_NoDuplicatesInAnyField ==
    val.pc = "done" =>
        \A f \in ListFields \cup {"overview_paragraphs"} :
            NoCaseDuplicates(val.validated[f])

\* The distinct overview paragraphs of the candidate summary.
CandidateOverview == dedupe_strings(val.summary.overview_paragraphs)

\* C26: when the candidate has 1 or 2 distinct overview paragraphs, the
\* validated overview keeps them, in their order, as its first paragraphs
\* and holds exactly 3 paragraphs, the others being generated ones that do
\* not duplicate them; the paragraphs the candidate had are never discarded.
C26_OverviewRepairKeepsCandidate ==
    (val.pc = "done" /\ Len(CandidateOverview) \in {1, 2}) =>
        /\ Len(val.validated.overview_paragraphs) = 3
        /\ Prefix(val.validated.overview_paragraphs, Len(CandidateOverview))
              = CandidateOverview
        /\ NoCaseDuplicates(val.validated.overview_paragraphs)

\* C27: every item of the four bulleted fields of the validated summary is
\* at most 180 characters long, the ellipsis of a truncated item included,
\* also when the item has no space within its first 180 characters.
C27_ItemsAtMost180 ==
    val.pc = "done" =>
        \A f \in ListFields : \A i \in 1..Len(val.validated[f]) :
            Len(val.validated[f][i]) <= ItemMaxChars

(***************************************************************************)
(* Properties of the offline question generator                            *)
(***************************************************************************)

\* The fact question number n (from 1) is built on: the pool entry at the
\* cyclic index, shortened.
ChosenFact(pool, n) == _shorten(pool[((n - 1) % Len(pool)) + 1], FactMaxChars)

\* C13: generate_mcqs returns exactly 5 items, each with exactly 4 options
\* and a correct_index in 0..3 at which the options hold the fact chosen
\* for that question.
C13_FiveItemsCorrectIndex ==
    mcq.pc = "done" =>
        LET pool == FactPool(mcq.summary, mcq.context_chunks) IN
        /\ Len(mcq.out) = 5
        /\ \A n \in 1..Len(mcq.out) :
              /\ Len(mcq.out[n].options) = 4
              /\ mcq.out[n].correct_index \in 0..3
              /\ mcq.out[n].options[mcq.out[n].correct_index + 1] = ChosenFact(pool, n)

C13_Witness ==
    /\ mcq.pc = "done"
    /\ Len(FactPool(mcq.summary, mcq.context_chunks)) = 3
    /\ mcq.out[4].correct_index = 1
    /\ mcq.out[4].options[2] = ChosenFact(FactPool(mcq.summary, mcq.context_chunks), 1)
    /\ mcq.out[2].correct_index = 3

\* The pool entries a distractor may be taken from: all but the entry
\* chosen as the correct statement of question n.
OtherShortened(pool, n) ==
    {_shorten(pool[k], DistractorMaxChars) :
        k \in (1..Len(pool)) \ {((n - 1) % Len(pool)) + 1}}

\* C14: the 4 options of every item are pairwise different strings, and
\* each of the three distractors is a pool fact other than the one chosen
\* as the correct statement, or the generic distractor.
C14_OptionsDistinct ==
    mcq.pc = "done" =>
        LET pool == FactPool(mcq.summary, mcq.context_chunks) IN
        \A n \in 1..Len(mcq.out) :
            LET options == mcq.out[n].options
                correct == mcq.out[n].correct_index + 1
            IN  /\ \A i, j \in 1..Len(options) : i # j => options[i] # options[j]
                /\ \A i \in (1..Len(options)) \ {correct} :
                      options[i] \in OtherShortened(pool, n) \cup {GenericDistractor}

(***************************************************************************)
(* Properties of the offline solver                                        *)
(***************************************************************************)

SolverDone == slv.pc = "done" /\ slv.fn = "solver_chat"

\* The question solver_chat works on, and the tree of the text it hands to
\* the evaluator.
Question == Strip(CollapseWS(slv.message))
CandidateTree == ast_parse(Candidate(Question))

\* C15: the offline tier never fails: a call of solver_chat hands back a
\* reply and raises nothing, whatever the message (texts of the arithmetic
\* and of the linear-equation grammar included) and with or without an image.
C15_OfflineNeverRaises == SolverDone => slv.out.kind # "raise"

\* The evaluation of an expression divides by zero or has no finite value.
NoFiniteValue(t) ==
    ToFloat(Eval(t)).k \in {"ZeroDivisionError", "OverflowError", "inf", "nan"}

\* C16: when the message is accepted by the arithmetic grammar and its
\* evaluation divides by zero or has no finite value, solver_chat neither
\* raises nor answers with a final value: it falls through to the handling
\* of non-arithmetic text and answers with the generic framework.
C16_FailsSafely ==
    (/\ SolverDone
     /\ CandidateTree \in ArithmeticTrees
     /\ NoFiniteValue(CandidateTree)) => slv.out.kind = "framework"

NumericLiteral(t) == t.node = "Constant" /\ t.type \in {"int", "float"}
ArithmeticOperator(t) ==
    \/ t.node = "BinOp" /\ t.op \in AllowedBinOps
    \/ t.node = "UnaryOp" /\ t.op \in AllowedUnaryOps
ForeignNode(t) ==
    \/ t.node \in {"Name", "Call", "Attribute"}
    \/ t.node = "Constant" /\ t.type \notin {"int", "float"}

\* The text one finished call handed to _safe_eval.
EvaluatorInput == IF slv.fn = "_safe_eval" THEN slv.message ELSE Candidate(Question)

IsEquation ==
    /\ Question # <<>>
    /\ LinearGroups(Question).matched
    /\ NotDec \notin {Coefficients(LinearGroups(Question)).a,
                      Coefficients(LinearGroups(Question)).b,
                      Coefficients(LinearGroups(Question)).c}
EquationCoefficients == Coefficients(LinearGroups(Question))

\* C18: for a message of the form a x + b = c the reply derives
\* x = (c - b) / a when a is not zero, and is the no-single-solution message,
\* reached without a division, when a is zero.
C18_LinearSolved ==
    (SolverDone /\ IsEquation) =>
        IF EquationCoefficients.a.m # 0
          THEN /\ slv.out.kind = "linear"
               /\ slv.out.text =
                    FixedText(Div(Sub(DecFloat(EquationCoefficients.c),
                                      DecFloat(EquationCoefficients.b)),
                                  DecFloat(EquationCoefficients.a)))
          ELSE slv.out.kind = "no_single_solution" /\ ~slv.out.divided

(***************************************************************************)
(* Properties of the multi-pass summarisation                              *)
(***************************************************************************)

\* The index of the chunk the last chunk prompt was about.
ChunksAsked == Cardinality({i \in 1..Len(mps.calls) : mps.calls[i] = "chunk"})

\* The last request was a chunk prompt and its answer did not parse as a
\* JSON object.
ChunkAnswerUnparsed ==
    /\ mps.pc # "parked"
    /\ mps.calls # <<>>
    /\ mps.calls[Len(mps.calls)] = "chunk"
    /\ mps.last \in {"array", "garbage"}

\* C19: a chunk whose answer fails to parse as a JSON object is dropped and
\* contributes no note, and that is no failure of the protocol: nothing is
\* raised and the protocol goes on with the next chunk or the next stage.
C19_UnparsedChunkDropped ==
    ChunkAnswerUnparsed =>
        /\ \A i \in 1..Len(mps.notes) : mps.notes[i] # ChunksAsked
        /\ mps.result # "raised"
        /\ mps.pc \in {"extract", "reduce", "single_shot"}

\* C20: when no chunk yielded a note, no reduce, synthesis or validation
\* prompt is sent about the empty note set; the next request is the
\* single-shot summarize call on the whole cleaned transcript.
C20_EmptyNotesSingleShot ==
    (mps.pc # "parked" /\ mps.notes = <<>>) =>
        /\ \A i \in 1..Len(mps.calls) :
              mps.calls[i] \notin {"reduce", "synthesis", "validation"}
        /\ (mps.total >= 1 /\ mps.index > mps.total /\ mps.calls[Len(mps.calls)] = "chunk")
              => mps.pc = "single_shot"

\* The stage the last request belonged to.
LastCall == mps.calls[Len(mps.calls)]

\* The stage that follows a stage of the protocol.
NextStage(stage) ==
    CASE stage = "reduce" -> "synthesis"
      [] stage = "synthesis" -> "validation"
      [] stage = "validation" -> "done"

\* The last request was the reduce, synthesis or validation prompt.
LaterStageAsked ==
    /\ mps.pc # "parked"
    /\ mps.calls # <<>>
    /\ LastCall \in {"reduce", "synthesis", "validation"}

\* What the stage asked last left in its variable.
StageResult ==
    CASE LastCall = "reduce" -> mps.reduced
      [] LastCall = "synthesis" -> mps.candidate
      [] LastCall = "validation" -> mps.data

\* What the stage before it had produced.
PriorResult ==
    CASE LastCall = "reduce" -> "empty"
      [] LastCall = "synthesis" -> mps.reduced
      [] LastCall = "validation" -> mps.candidate

\* C21: whenever the reduce, synthesis or validation stage returns output
\* that is not JSON or is JSON of the wrong shape (not an object), the
\* protocol does not abort: it carries forward the result of the stage
\* before (validation the synthesized candidate, synthesis the reduced
\* notes) and goes on to the next stage, reaching the end with a result.
C21_StageFailureCarriesForward ==
    (LaterStageAsked /\ mps.last \in {"array", "garbage"}) =>
        /\ mps.result # "raised"
        /\ mps.pc = NextStage(LastCall)
        /\ StageResult = PriorResult
        /\ LastCall = "validation" => mps.result = "returned"

\* summarize is over with an exception raised to its caller.
SummarizeRaised == mps.pc = "done" /\ mps.result = "raised"

\* C22: in the summarize of each network adapter an exception that escapes
\* the multi-pass protocol leads to exactly one single-shot retry with the
\* plain summary prompt, and the adapter raises to its caller only when
\* that retry failed too.
C22_ExceptionThenOneRetry ==
    mps.pc # "parked" =>
        /\ mps.retries <= 1
        /\ mps.retries = 1 => mps.sent[Len(mps.sent)].prompt = "summary"
        /\ (SummarizeRaised /\ ChunksAsked >= 1) => mps.retries = 1

(***************************************************************************)
(* Properties of the JSON requests of the network adapters                 *)
\* The positions in the requests of summarize at which a prompt was sent.
AskedAt(prompt) == {i \in 1..Len(mps.calls) : mps.calls[i] = prompt}

\* Every request of the one prompt comes after a request of the other.
AskedAfter(later, earlier) ==
    \A i \in AskedAt(later) : \E j \in AskedAt(earlier) : j < i

\* C25: multi-pass summarization follows the stage order extract, reduce,
\* synthesize, validate: the reduce request is issued only after the
\* extraction request of every chunk has completed, synthesize only after
\* reduce, validate only after synthesize; each of the three is requested at
\* most once per summarize (the parse retry not counted); and when chunking
\* yields zero chunks none of them is requested, only the single-shot
\* prompt.
C25_StageOrder ==
    mps.pc # "parked" =>
        /\ \A stage \in {"reduce", "synthesis", "validation"} :
              Cardinality(AskedAt(stage)) <= 1
        /\ \A i \in AskedAt("reduce") :
              /\ Cardinality({j \in AskedAt("chunk") : j < i}) = mps.total
              /\ mps.index > mps.total
        /\ Cardinality(AskedAt("chunk")) <= mps.total
        /\ AskedAfter("synthesis", "reduce")
        /\ AskedAfter("validation", "synthesis")
        /\ mps.total = 0 => \A i \in 1..Len(mps.calls) : mps.calls[i] = "summary"

\* A summarize over two chunks that went through every stage.
C25_Witness ==
    /\ mps.pc = "done"
    /\ mps.result = "returned"
    /\ mps.total = 2
    /\ mps.calls = <<"chunk", "chunk", "reduce", "synthesis", "validation">>

(***************************************************************************)

\* The last _generate_json of summarize raised: the protocol is on its way
\* to the handler of GeminiService.summarize, or summarize is over with the
\* exception.
RequestRaised == mps.pc = "fallback" \/ SummarizeRaised

\* The retry is the same prompt with the "JSON only" line.
StricterRetry(request) ==
    /\ ~request[1].strict
    /\ request[2].strict
    /\ request[2].prompt = request[1].prompt

\* At most two calls, the second only after an answer that failed the
\* extraction.
AtMostOneRetry(request, first) ==
    /\ Len(request) \in {1, 2}
    /\ Len(request) = 2 => first = "garbage"

\* C23 as stated: every JSON request of either network adapter (a
\* _generate_json, a generate_mcqs) makes at most two model calls; the
\* second, with the stricter "JSON only" prompt and a lower temperature, is
\* made only when the first answer failed the JSON extraction; and when the
\* second answer fails to parse too the request raises, without a third
\* call.
C23_RetryOnceLowerTemperature ==
    /\ (mps.pc # "parked" /\ mps.calls # <<>>) =>
          /\ AtMostOneRetry(mps.request, mps.first)
          /\ Len(mps.request) = 2 =>
                /\ StricterRetry(mps.request)
                /\ mps.request[2].temperature < mps.request[1].temperature
                /\ mps.last \in {"garbage", "error"} => RequestRaised
    /\ (mcq.pc = "done") =>
          /\ AtMostOneRetry(mcq.request, mcq.first.kind)
          /\ Len(mcq.request) = 2 =>
                /\ StricterRetry(mcq.request)
                /\ mcq.request[2].temperature < mcq.request[1].temperature
                /\ mcq.last.kind \in {"garbage", "error"} => mcq.out.raised

\* generate_mcqs of a network adapter handed a list back.
McqsReturned == mcq.pc = "done" /\ ~mcq.out.raised

\* C24: generate_mcqs of each network adapter either raises or returns
\* exactly 5 MCQItems, every one with exactly 4 options (padded with filler
\* when the model gave fewer, cut when it gave more) and a correct_index
\* within 0..3; it never returns fewer than 5 items or an item outside
\* these bounds.
C24_FiveItemsFourOptions ==
    McqsReturned =>
        /\ Len(mcq.out.items) = NetworkMcqCount
        /\ \A i \in 1..Len(mcq.out.items) :
              /\ Len(mcq.out.items[i].options) = OptionCount
              /\ mcq.out.items[i].correct_index \in 0..MaxCorrectIndex

\* The model answered with a bare list of six questions, each with fewer
\* than four usable options, one of them with correct_index 4: five items
\* are returned, their last option is the filler and the index is clamped.
C24_Witness ==
    /\ McqsReturned
    /\ mcq.last.data.type = "list"
    /\ Len(mcq.last.data.xs) = MaxMcqItems
    /\ \A i \in 1..NetworkMcqCount :
          /\ mcq.last.data.xs[i].type = "dict"
          /\ Len(CleanOptions(mcq.last.data.xs[i].options)) < OptionCount
          /\ mcq.out.items[i].options[OptionCount] = fallback_pool[OptionCount]
    /\ \E i \in 1..NetworkMcqCount :
          /\ mcq.last.data.xs[i].correct_index = JInt(4)
          /\ mcq.out.items[i].correct_index = MaxCorrectIndex

(***************************************************************************)
(* Properties of the handlers                                              *)
(***************************************************************************)

\* Request r is inside /summarize in this step, and leaves it by raising or
\* by returning.
InSummarize(r) == thr[r].pc = "summarize_chain" \/ thr'[r].pc = "summarize_chain"
SummarizeRaises(r) ==
    thr[r].pc = "summarize_chain" /\ thr'[r].pc = "idle" /\ ret'.err # "none"
SummarizeReturns(r) ==
    thr[r].pc = "summarize_chain" /\ thr'[r].pc = "idle" /\ ret'.err = "none"

\* C29: /summarize writes to the session store only after the fallback
\* chain has returned a summary.  When the chain raises no session is
\* created and no session's transcript, summary or retrieval chunks change;
\* when it returns, the session holds the cleaned transcript, that summary,
\* and the chunks of that same cleaned transcript.
C29_SummarizeWritesAfterChain ==
    [][\A r \in Threads :
        /\ (InSummarize(r) /\ ~SummarizeReturns(r)) => sessions' = sessions
        /\ SummarizeRaises(r) => sessions' = sessions
        /\ SummarizeReturns(r) =>
              LET session == sessions'[ret'.val]
                  cleaned == StringOf(clean_transcript_text(Chars(thr[r].transcript)))
              IN  /\ session # Absent
                  /\ session.transcript = cleaned
                  /\ session.summary = model_dump(ret'.summary)
                  /\ session.retrieval_chunks = RouteChunks(cleaned)]_vars

\* /summarize returned on a session that held a chat already: transcript,
\* summary and chunks are those of the request.
C29_Witness ==
    /\ ret.op = "summarize"
    /\ ret.err = "none"
    /\ sessions[ret.val].chat_history # <<>>
    /\ sessions[ret.val].summary = model_dump(ret.summary)
    /\ sessions[ret.val].retrieval_chunks # <<>>
    /\ sessions[ret.val].retrieval_chunks = RouteChunks(sessions[ret.val].transcript)

\* The entries are question and answer pairs: at every odd position the
\* message of a request, followed by the answer to that same request.
Paired(history) ==
    /\ Len(history) % 2 = 0
    /\ \A i \in 1..Len(history) :
          i % 2 = 1 =>
              \E r \in Threads :
                  /\ history[i] = [role |-> "user", content |-> MessageOf(r)]
                  /\ history[i + 1] = [role |-> "assistant", content |-> AnswerTo(r)]

\* The requests between line 272 and line 273 on the session: their message
\* is stored, their answer not yet.
Answering(id) == {r \in Threads : thr[r].pc = "append_assistant" /\ thr[r].sid = id}

\* C30: for any interleaving of concurrent /chat requests on one session the
\* stored chat_history consists of adjacent pairs, each message a request
\* appended followed at once by the answer to that same request; a request
\* whose generation failed appends nothing.  While a request is between its
\* two appends, its message is the last entry and everything before it is
\* paired.
C30_ChatHistoryPaired ==
    \A id \in Ids :
        sessions[id] # Absent =>
            LET history == sessions[id].chat_history IN
            IF Answering(id) = {} THEN Paired(history)
            ELSE /\ history # <<>>
                 /\ \E r \in Answering(id) :
                       history[Len(history)] = [role |-> "user", content |-> MessageOf(r)]
                 /\ Paired(SubSeq(history, 1, Len(history) - 1))

\* Both requests chatted on the session, one after the other.
C30_Witness ==
    /\ ret.op = "chat"
    /\ ret.err = "none"
    /\ \E r, u \in Threads :
          /\ r # u
          /\ sessions[ret.val].chat_history =
                <<[role |-> "user", content |-> MessageOf(r)],
                  [role |-> "assistant", content |-> AnswerTo(r)],
                  [role |-> "user", content |-> MessageOf(u)],
                  [role |-> "assistant", content |-> AnswerTo(u)]>>

====
